---- MODULE Spec2Model ----
(***************************************************************************)
(* Model of rspack_cacheable (to_bytes / from_bytes over rkyv), of the     *)
(* with-adapters and of the cacheable_dyn registry.                        *)
(*                                                                         *)
(* The archive is a sequence of bytes.  The layout follows rkyv's: every   *)
(* out-of-line child is written before the record that points to it, a    *)
(* pointer or a length is a 4-byte little-endian word, a record is aligned *)
(* to its alignment with zero padding, and the root record is the last     *)
(* record of the buffer.  Offsets are kept absolute (from the buffer       *)
(* start) and strings are always out of line.                              *)
(***************************************************************************)
EXTENDS Integers, Sequences, FiniteSets, TLC

\* ------------------------------------------------------------------ bounds
MaxStrLen == 1
NumThreads == 2
MaxFaultAt == 2
MaxBufLen == 5

\* The sample of u8 / u32 values of plain fields, leaves and contexts.
Prims == {0, 255}
None == "None"

\* ------------------------------------------------------------------ bytes
Word(n) ==
  <<n % 256, (n \div 256) % 256, (n \div 65536) % 256, (n \div 16777216) % 256>>

\* The value of a word; every word of 2^24 or more is read as a value of at
\* least 2^24 (it only has to lie outside any buffer of the model).
ReadWord(bytes, at) ==
  bytes[at + 1] + 256 * bytes[at + 2] + 65536 * bytes[at + 3]
    + (IF bytes[at + 4] = 0 THEN 0 ELSE 16777216)

\* bytes[at .. at+len), cut at the end of the buffer.
Slice(bytes, at, len) ==
  IF len <= 0 \/ at >= Len(bytes) THEN <<>>
  ELSE SubSeq(bytes, at + 1, IF at + len <= Len(bytes) THEN at + len ELSE Len(bytes))

Zeros(n) == [i \in 1..n |-> 0]

\* Type names are strings of bytes; a type path is a sequence of segments.
SegA == <<65>>
SegR == <<82>>
SegB == <<66>>
SegM1 == <<109, 49>>
SegM2 == <<109, 50>>
TypeA == <<SegM1, SegA>>
TypeB == <<SegM1, SegB>>
TypeA2 == <<SegM2, SegA>>
TypeR == <<SegM1, SegR>>
TypeC == <<SegM1, <<67>>>>

\* Archived size and alignment of the types of the model.
SizeOf(ty) ==
  CASE ty = "u8" -> 1
    [] ty = "u32" -> 4
    [] ty \in {"Root8", "Root32"} -> 36
    [] ty = "Pair" -> 16
    [] ty = "Json" -> 8
    [] ty = "DynRc" -> 8
    [] OTHER -> 1

AlignOf(ty) ==
  CASE ty = "u8" -> 1
    [] ty = "u32" -> 4
    [] ty \in {"Root8", "Root32"} -> 4
    [] ty = "Pair" -> 4
    [] ty = "Json" -> 4
    [] ty = "DynRc" -> 4
    [] OTHER -> 1

\* The two root types of the model differ in the type behind their Rc fields.
LeafKind(ty) == IF ty = "Root32" THEN "u32" ELSE "u8"
\* "Json" is a struct with one Option-less JsonValue field j bound to the
\* string adapter; "Locked" is a #[cacheable] struct with a u8 field n and a
\* RwLock<u8> field l.
RootTy(v) ==
  IF "j" \in DOMAIN v THEN "Json"
  ELSE IF "l" \in DOMAIN v THEN "Locked"
  ELSE IF v.a.kind = "u32" THEN "Root32" ELSE "Root8"

\* ------------------------------------------------------------- serializer
\* The resource failure a call meets: the nth operation of one component
\* (buffer, scratch arena, shared table) of each serializer made for the
\* call fails.  It is part of the environment of the call and is carried
\* with the context; a context without it meets no failure.
NoFault == [op |-> "none", nth |-> 0]
FaultOf(context) == IF "fault" \in DOMAIN context THEN context.fault ELSE NoFault

\* count: the operations of the failing component so far; attempts: the
\* operations that failed (history).
\* Mutant of CacheableSerializer_new: the buffer starts with the context.
CacheableSerializer_new_stamped(context) ==
  [serializer |-> <<context.env>>, shared |-> <<>>, context |-> context, error |-> None,
   fault |-> FaultOf(context), count |-> 0, attempts |-> 0]

CacheableSerializer_new(context) ==
  [serializer |-> <<>>, shared |-> <<>>, context |-> context, error |-> None,
   fault |-> FaultOf(context), count |-> 0, attempts |-> 0]

pos(ser) == Len(ser.serializer)

Fails(ser, op) == ser.fault.op = op /\ ser.count + 1 = ser.fault.nth
Counted(ser, op) == IF ser.fault.op = op THEN [ser EXCEPT !.count = @ + 1] ELSE ser
Failed(ser, e) == [ser EXCEPT !.error = e, !.count = @ + 1, !.attempts = @ + 1]

write(ser, bytes) ==
  IF ser.error # None THEN ser
  ELSE IF Fails(ser, "buffer") THEN Failed(ser, "SerializerError")
  ELSE Counted([ser EXCEPT !.serializer = @ \o bytes], "buffer")

\* ScratchSpace::push_scratch and pop_scratch around the use of the space
push_scratch(ser) ==
  IF ser.error # None THEN ser
  ELSE IF Fails(ser, "scratch") THEN Failed(ser, "ScratchSpaceError")
  ELSE Counted(ser, "scratch")

pad(ser, padding) == write(ser, Zeros(padding))

\* Mutant of align: no filler is written.
align_unpadded(ser, a) == pad(ser, 0)

align(ser, a) == pad(ser, (a - (pos(ser) % a)) % a)

align_for(ser, ty) == align(ser, AlignOf(ty))

\* resolve_aligned: the record is written at the aligned position, which is
\* the position the parent stores.
resolve(ser, record) == <<write(ser, record), pos(ser)>>
resolve_aligned(ser, ty, record) == resolve(align_for(ser, ty), record)

\* Option<usize> as a record: some, and the position when some.
ser_get_shared_ptr(ser, value) ==
  IF value \in DOMAIN ser.shared
  THEN [some |-> TRUE, at |-> ser.shared[value]]
  ELSE [some |-> FALSE, at |-> 0]

ser_add_shared_ptr(ser, value, at) ==
  IF ser.error # None THEN ser
  ELSE IF Fails(ser, "shared") \/ value \in DOMAIN ser.shared
       THEN Failed(ser, "SharedError")
  ELSE Counted([ser EXCEPT !.shared = (value :> at) @@ @], "shared")

\* The archived bytes of a shared leaf value.
LeafBytes(rc) == IF rc.kind = "u32" THEN Word(rc.val) ELSE <<rc.val>>

\* Mutant of serialize_shared: the shared table is not consulted.
serialize_shared_always(ser, rc) == resolve_aligned(ser, rc.kind, LeafBytes(rc))

\* rkyv's serialize_shared over get_shared_ptr / add_shared_ptr: the pointee
\* is emitted at the first encounter of its address only.
serialize_new(rc, w) == <<ser_add_shared_ptr(w[1], rc.addr, w[2]), w[2]>>
serialize_found(ser, rc, found) ==
  IF found.some THEN <<ser, found.at>>
  ELSE serialize_new(rc, resolve_aligned(ser, rc.kind, LeafBytes(rc)))
serialize_shared(ser, rc) == serialize_found(ser, rc, ser_get_shared_ptr(ser, rc.addr))

\* ArchivedString::serialize_from_str: the bytes of the text are written.
serialize_from_str(ser, text) == <<write(ser, text), pos(ser)>>

\* ArchivedVec::serialize_from_slice: the elements' resolvers are kept in
\* scratch space while the elements are written.
serialize_from_slice(ser, bytes) == serialize_from_str(push_scratch(ser), bytes)

\* ------------------------------------------------------------- converters
IsCont(b) == b >= 128 /\ b <= 191

\* Length of the well-formed UTF-8 sequence that starts at index i of bytes,
\* 0 when none starts there.
Utf8SeqLen(bytes, i) ==
  LET b == bytes[i]
      n == Len(bytes)
  IN  IF b < 128 THEN 1
      ELSE IF b >= 194 /\ b <= 223 /\ i + 1 <= n /\ IsCont(bytes[i + 1]) THEN 2
      ELSE IF b >= 224 /\ b <= 239 /\ i + 2 <= n
              /\ IsCont(bytes[i + 1]) /\ IsCont(bytes[i + 2])
              /\ (b = 224 => bytes[i + 1] >= 160)
              /\ (b = 237 => bytes[i + 1] <= 159) THEN 3
      ELSE IF b >= 240 /\ b <= 244 /\ i + 3 <= n
              /\ IsCont(bytes[i + 1]) /\ IsCont(bytes[i + 2]) /\ IsCont(bytes[i + 3])
              /\ (b = 240 => bytes[i + 1] >= 144)
              /\ (b = 244 => bytes[i + 1] <= 143) THEN 4
      ELSE 0

RECURSIVE IsUtf8From(_, _)
IsUtf8From(bytes, i) ==
  IF i > Len(bytes) THEN TRUE
  ELSE LET k == Utf8SeqLen(bytes, i)
       IN  k > 0 /\ IsUtf8From(bytes, i + k)

IsUtf8(bytes) == IsUtf8From(bytes, 1)

ReplacementChar == <<239, 191, 189>>

\* OsStr::to_string_lossy: well-formed sequences are kept, every other byte
\* becomes U+FFFD.
RECURSIVE LossyFrom(_, _)
LossyFrom(bytes, i) ==
  IF i > Len(bytes) THEN <<>>
  ELSE LET k == Utf8SeqLen(bytes, i)
       IN  IF k > 0 THEN SubSeq(bytes, i, i + k - 1) \o LossyFrom(bytes, i + k)
           ELSE ReplacementChar \o LossyFrom(bytes, i + 1)

\* impl AsStringConverter for PathBuf
PathBuf_to_string(path) == LossyFrom(path, 1)
PathBuf_from_str(s) == s

\* How a call ends: Ok, Err, or a panic with its message.
NoOut == [tag |-> "none"]
Ok(v) == [tag |-> "ok", val |-> v]
Err(e) == [tag |-> "err", err |-> e]
Panic(msg, name) == [tag |-> "panic", msg |-> msg, name |-> name]

\* JsonValue of the model: null, a boolean, a number of one digit, the
\* empty array.
JsonNull == [kind |-> "Null"]
JsonBoolean(b) == [kind |-> "Boolean", b |-> b]
JsonNumber(n) == [kind |-> "Number", n |-> n]
JsonArray == [kind |-> "Array", items |-> <<>>]

\* json::stringify
json_stringify(v) ==
  CASE v.kind = "Null" -> <<110, 117, 108, 108>>
    [] v.kind = "Boolean" -> IF v.b THEN <<116, 114, 117, 101>>
                             ELSE <<102, 97, 108, 115, 101>>
    [] v.kind = "Number" -> <<48 + v.n>>
    [] v.kind = "Array" -> <<91, 93>>

\* json::parse on the texts of the model: a literal, a digit or "[]"; any
\* other text is a parse error.
json_parse(text) ==
  CASE text = <<110, 117, 108, 108>> -> Ok(JsonNull)
    [] text = <<116, 114, 117, 101>> -> Ok(JsonBoolean(TRUE))
    [] text = <<102, 97, 108, 115, 101>> -> Ok(JsonBoolean(FALSE))
    [] Len(text) = 1 /\ text[1] \in 48..57 -> Ok(JsonNumber(text[1] - 48))
    [] text = <<91, 93>> -> Ok(JsonArray)
    [] OTHER -> Err("parse error")

\* impl AsStringConverter for JsonValue: from_str is
\* json::parse(s).expect("parse json failed")
JsonValue_to_string(v) == json_stringify(v)
JsonValue_from_str(s) ==
  IF json_parse(s).tag = "ok" THEN Ok(json_parse(s).val)
  ELSE Panic("parse json failed", s)

\* fn __cacheable_dyn_type_name: the last path segment of the implementing type
cacheable_dyn_type_name(ty) == ty[Len(ty)]

\* --------------------------------------------------------------- to_bytes
RECURSIVE to_bytes(_, _, _)
RECURSIVE serialize_value(_, _, _)

\* The archived type of a concrete type behind Box<dyn Trait>: m1::R is a
\* struct with a u8 field x and an Rc<u8> field r, the others have x only.
DynTy(ty) == IF ty = TypeR THEN "DynRc" ELSE "Dyn"

\* impl AsDynConverter for Box<dyn Trait>: fn to_bytes.  inner is the
\* result of to_bytes(self, context); the payload is the archive of
\* (type name, inner bytes).
AsDynConverter_pair(box, context, inner) ==
  IF ~inner.ok THEN inner
  ELSE to_bytes("Pair", <<cacheable_dyn_type_name(box.ty), inner.bytes>>, context)
AsDynConverter_to_bytes(box, context) ==
  AsDynConverter_pair(box, context, to_bytes(DynTy(box.ty), box, context))

\* AsDyn::serialize_with: the payload r is written as a byte vector, an
\* error of the converter becomes the serializer's error
\* Mutant of AsDyn_write: the converter's error is wrapped as an error of
\* the buffer.
AsDyn_write_wrapped(ser, r) ==
  IF ~r.ok THEN <<[ser EXCEPT !.error = "SerializerError", !.attempts = @ + r.attempts], 0, 0>>
  ELSE serialize_from_slice(ser, r.bytes) \o <<Len(r.bytes)>>

AsDyn_write(ser, r) ==
  IF ~r.ok THEN <<[ser EXCEPT !.error = r.err, !.attempts = @ + r.attempts], 0, 0>>
  ELSE serialize_from_slice(ser, r.bytes) \o <<Len(r.bytes)>>
AsDyn_serialize_with(ser, field) ==
  IF ser.error # None THEN <<ser, 0, 0>>
  ELSE AsDyn_write(ser, AsDynConverter_to_bytes(field, ser.context))

\* impl SerializeWith for the string adapter (as_map.rs): the text of the field
AsString_write(ser, text) == serialize_from_str(ser, text) \o <<Len(text)>>
AsString_serialize_with(ser, field) == AsString_write(ser, PathBuf_to_string(field))

\* Mutant of Skip_serialize_with: the field is written into the buffer.
Skip_serialize_with_written(ser, field) == <<write(ser, <<field>>)>>

\* SkipWithDeserialize::serialize_with: nothing is written
Skip_serialize_with(ser, field) == <<ser>>

\* The fields of the derived Serialize impls, in declaration order.
FieldsOf(ty) ==
  CASE ty \in {"Root8", "Root32"} -> <<"s", "p", "a", "b", "d", "k">>
    [] ty = "Pair" -> <<"0", "1">>
    [] ty = "Json" -> <<"j">>
    [] ty = "Locked" -> <<"l">>
    [] ty = "DynRc" -> <<"r">>
    [] OTHER -> <<>>

\* Serialize of one field: the serializer after it, then what the parent
\* record stores for it (position, and length for a slice).
serialize_field(ser, name, data) ==
  CASE name = "s" -> serialize_from_str(ser, data.s)
    [] name = "p" -> AsString_serialize_with(ser, data.p)
    [] name = "a" -> serialize_shared(ser, data.a)
    [] name = "b" -> serialize_shared(ser, data.b)
    [] name = "d" -> AsDyn_serialize_with(ser, data.d)
    [] name = "k" -> Skip_serialize_with(ser, data.k)
    [] name = "j" -> AsString_write(ser, JsonValue_to_string(data.j))
    [] name = "l" -> Skip_serialize_with(ser, data.l)
    [] name = "r" -> serialize_shared(ser, data.r)
    [] name = "0" -> serialize_from_str(ser, data[1])
    [] name = "1" -> serialize_from_slice(ser, data[2])

\* acc is <<serializer, resolvers of the fields so far>>
Resolved(acc, w) == <<w[1], acc[2] \o Tail(w)>>

RECURSIVE serialize_fields(_, _, _)
serialize_fields(acc, names, data) ==
  IF names = <<>> THEN acc
  ELSE serialize_fields(Resolved(acc, serialize_field(acc[1], Head(names), data)),
                        Tail(names), data)

\* The archived record of a value: plain fields in place, a word for each
\* position and length.  at is <<s, p, len p, a, b, d, len d>> for a root
\* and <<tag, data>> for (String, Vec<u8>).
Record(ty, data, at) ==
  CASE ty \in {"Root8", "Root32"} ->
         <<data.n, 0, 0, 0>> \o Word(at[1]) \o Word(Len(data.s)) \o Word(at[2])
           \o Word(at[3]) \o Word(at[4]) \o Word(at[5]) \o Word(at[6]) \o Word(at[7])
    [] ty = "Pair" ->
         Word(at[1]) \o Word(Len(data[1])) \o Word(at[2]) \o Word(Len(data[2]))
    [] ty = "Json" -> Word(at[1]) \o Word(at[2])
    [] ty = "Locked" -> <<data.n>>
    [] ty = "DynRc" -> <<data.x, 0, 0, 0>> \o Word(at[1])
    [] OTHER -> <<data.x>>

\* Mutant of serialize_record: the record is written with offsets that were
\* taken before the children were written, so they point past the record.
serialize_record_forward(ty, data, acc) ==
  resolve_aligned(acc[1], ty,
                  Record(ty, data, [i \in DOMAIN acc[2] |-> acc[2][i] + pos(acc[1])]))[1]

serialize_record(ty, data, acc) == resolve_aligned(acc[1], ty, Record(ty, data, acc[2]))[1]

\* Serialize::serialize then resolve of the value: children first, the
\* value's own record last
serialize_value(ser, ty, data) ==
  serialize_record(ty, data, serialize_fields(<<ser, <<>>>>, FieldsOf(ty), data))

into_result(serializer) ==
  IF serializer.error # None
  THEN [ok |-> FALSE, err |-> serializer.error, attempts |-> serializer.attempts]
  ELSE [ok |-> TRUE, bytes |-> serializer.serializer]

to_bytes(ty, data, ctx) ==
  into_result(serialize_value(CacheableSerializer_new(ctx), ty, data))

\* ----------------------------------------------------------- validation
InRange(lo, at, len, hi) == lo <= at /\ at + len <= hi

\* rkyv's check_archived_root for the types of the model: the root record
\* is the last SizeOf(ty) bytes; every pointer must lead to bytes that lie
\* before the record, after the subtree checked before it, aligned; a
\* string must be UTF-8; a shared pointer to an address already registered
\* is accepted as it is.  Plain bytes and padding carry no constraint.
CheckRoot(ty, bytes) ==
  LET root == Len(bytes) - SizeOf(ty)
      kind == LeafKind(ty)
      sz == SizeOf(kind)
      s_at == ReadWord(bytes, root + 4)
      s_len == ReadWord(bytes, root + 8)
      p_at == ReadWord(bytes, root + 12)
      p_len == ReadWord(bytes, root + 16)
      a_at == ReadWord(bytes, root + 20)
      b_at == ReadWord(bytes, root + 24)
      d_at == ReadWord(bytes, root + 28)
      d_len == ReadWord(bytes, root + 32)
      lo_b == IF b_at = a_at THEN a_at + sz ELSE b_at + sz
  IN  /\ InRange(0, s_at, s_len, root)
      /\ IsUtf8(Slice(bytes, s_at, s_len))
      /\ InRange(s_at + s_len, p_at, p_len, root)
      /\ IsUtf8(Slice(bytes, p_at, p_len))
      /\ a_at % AlignOf(kind) = 0
      /\ InRange(p_at + p_len, a_at, sz, root)
      /\ \/ b_at = a_at
         \/ b_at % AlignOf(kind) = 0 /\ InRange(a_at + sz, b_at, sz, root)
      /\ InRange(lo_b, d_at, d_len, root)

CheckPair(bytes) ==
  LET root == Len(bytes) - SizeOf("Pair")
      t_at == ReadWord(bytes, root)
      t_len == ReadWord(bytes, root + 4)
      d_at == ReadWord(bytes, root + 8)
      d_len == ReadWord(bytes, root + 12)
  IN  /\ InRange(0, t_at, t_len, root)
      /\ IsUtf8(Slice(bytes, t_at, t_len))
      /\ InRange(t_at + t_len, d_at, d_len, root)

CheckJson(bytes) ==
  LET root == Len(bytes) - SizeOf("Json")
      j_at == ReadWord(bytes, root)
      j_len == ReadWord(bytes, root + 4)
  IN  /\ InRange(0, j_at, j_len, root)
      /\ IsUtf8(Slice(bytes, j_at, j_len))

CheckDynRc(bytes) ==
  LET root == Len(bytes) - SizeOf("DynRc")
      r_at == ReadWord(bytes, root + 4)
  IN  InRange(0, r_at, SizeOf("u8"), root)

check_archived_root(ty, bytes) ==
  /\ Len(bytes) >= SizeOf(ty)
  /\ (Len(bytes) - SizeOf(ty)) % AlignOf(ty) = 0
  /\ CASE ty \in {"Root8", "Root32"} -> CheckRoot(ty, bytes)
       [] ty = "Pair" -> CheckPair(bytes)
       [] ty = "Json" -> CheckJson(bytes)
       [] ty = "DynRc" -> CheckDynRc(bytes)
       [] OTHER -> TRUE

\* ----------------------------------------------------------- deserializer
CacheableDeserializer_new(context) == [shared |-> <<>>, context |-> context]

de_get_context(de) == de.context

\* Option<&dyn SharedPointer> as a record: some, and the instance when some.
de_get_shared_ptr(de, ptr) ==
  IF ptr \in DOMAIN de.shared
  THEN [some |-> TRUE, inst |-> de.shared[ptr]]
  ELSE [some |-> FALSE, inst |-> 0]

\* Mutant of add_shared_ptr: a second registration replaces the first.
de_add_shared_ptr_overwrite(de, ptr, shared) ==
  [ok |-> TRUE, err |-> None, de |-> [de EXCEPT !.shared = (ptr :> shared) @@ @]]

de_add_shared_ptr(de, ptr, shared) ==
  IF ptr \in DOMAIN de.shared
  THEN [ok |-> FALSE, err |-> "DuplicateSharedPointer", de |-> de]
  ELSE [ok |-> TRUE, err |-> None, de |-> [de EXCEPT !.shared = (ptr :> shared) @@ @]]

\* The value of the shared leaf archived at position at.
ReadLeaf(kind, bytes, at) ==
  IF at + SizeOf(kind) > Len(bytes) THEN 0
  ELSE IF kind = "u32" THEN ReadWord(bytes, at) ELSE bytes[at + 1]

\* Mutant of deserialize_shared: an instance with the same content that is
\* already on the heap is reused, whichever call materialized it.
deserialize_shared_interned(de, hp, kind, bytes, at) ==
  IF \E i \in DOMAIN hp : hp[i] = ReadLeaf(kind, bytes, at)
  THEN [ok |-> TRUE, err |-> None, de |-> de, heap |-> hp,
        inst |-> CHOOSE i \in DOMAIN hp : hp[i] = ReadLeaf(kind, bytes, at)]
  ELSE [ok |-> TRUE, err |-> None, de |-> [de EXCEPT !.shared = (at :> Len(hp) + 1) @@ @],
        heap |-> Append(hp, ReadLeaf(kind, bytes, at)), inst |-> Len(hp) + 1]

\* Mutant of deserialize_shared: every encounter materializes a new instance.
deserialize_shared_always(de, hp, kind, bytes, at) ==
  [ok |-> TRUE, err |-> None, de |-> [de EXCEPT !.shared = (at :> Len(hp) + 1) @@ @],
   heap |-> Append(hp, ReadLeaf(kind, bytes, at)), inst |-> Len(hp) + 1]

\* rkyv's deserialize_shared over get_shared_ptr / add_shared_ptr: an offset
\* found in the table yields the instance registered for it; otherwise the
\* pointee is materialized as a new instance of the heap and registered.
deserialize_shared(de, hp, kind, bytes, at) ==
  LET found == de_get_shared_ptr(de, at)
      inst == Len(hp) + 1
      added == de_add_shared_ptr(de, at, inst)
  IN  IF found.some
      THEN [ok |-> TRUE, err |-> None, de |-> de, heap |-> hp, inst |-> found.inst]
      ELSE [ok |-> added.ok, err |-> added.err, de |-> added.de,
            heap |-> IF added.ok THEN Append(hp, ReadLeaf(kind, bytes, at)) ELSE hp,
            inst |-> inst]

\* Mutant of from_bytes: the archived root is taken without validation.
from_bytes_unchecked(ty, bytes) == None

\* from_bytes, first half: the validation of the bytes against the type.
from_bytes_check(ty, bytes) ==
  IF check_archived_root(ty, bytes) THEN None ELSE "CheckBytesError"

\* ---------------------------------------------------------------- registry
Caps == {"Module", "Dependency"}

\* Mutant of FlagsOf: one collection of records for every capability.
FlagsOf_all(records, cap) == records

\* inventory::iter::<Flag>: the registration records of one capability
FlagsOf(records, cap) == SelectSeq(records, LAMBDA r : r.cap = cap)

RECURSIVE registry_fold(_, _, _)
registry_fold(flags, i, map) ==
  IF i > Len(flags) THEN [ok |-> TRUE, map |-> map, panic |-> None, name |-> <<>>]
  ELSE IF flags[i].name \in DOMAIN map
       THEN [ok |-> FALSE, map |-> <<>>, panic |-> "duplicate implementation",
             name |-> flags[i].name]
       ELSE registry_fold(flags, i + 1, (flags[i].name :> flags[i].deserialize) @@ map)

\* The closure of static REGISTRY
registry_init(flags) == registry_fold(flags, 1, <<>>)

\* The cell of once_cell::sync::Lazy: its state, whether the closure is
\* still there to be taken, the value, and (history) how often the closure
\* has run.
LazyNew == [state |-> "incomplete", init |-> TRUE, map |-> <<>>, runs |-> 0]

\* Mutant of Lazy_can_enter: a thread enters while another one initializes.
Lazy_can_enter_racy(cell) == cell.state # "complete"

\* The compare-exchange that lets one thread in: incomplete -> running.
Lazy_can_enter(cell) == cell.state = "incomplete"

\* What the thread that is in does: `match this.init.take()`: the closure is
\* taken and run; a panic of the closure leaves the cell incomplete with no
\* closure, so the next thread in finds None and panics ("poisoned").
Lazy_run(cell, flags) ==
  LET built == registry_init(flags)
  IN  IF ~cell.init
      THEN [ok |-> FALSE, panic |-> "poisoned", name |-> <<>>,
            cell |-> [cell EXCEPT !.state = "incomplete"]]
      ELSE IF built.ok
      THEN [ok |-> TRUE, panic |-> None, name |-> <<>>,
            cell |-> [state |-> "complete", init |-> FALSE, map |-> built.map,
                      runs |-> cell.runs + 1]]
      ELSE [ok |-> FALSE, panic |-> built.panic, name |-> built.name,
            cell |-> [state |-> "incomplete", init |-> FALSE, map |-> <<>>,
                      runs |-> cell.runs + 1]]

\* once_cell::sync::Lazy::force run by one thread alone
Lazy_force(cell, flags) ==
  IF cell.state = "complete"
  THEN [ok |-> TRUE, cell |-> cell, panic |-> None, name |-> <<>>]
  ELSE Lazy_run(cell, flags)

\* ------------------------------------------------------------------ state
VARIABLES
  phase,      \* "start", "serialized", "reading", "done"
  value,      \* the value given to to_bytes
  ctx_w,      \* the context given to to_bytes
  ctx_r,      \* the context given to from_bytes
  inventory,  \* the registration records of the process, in iteration order
  written,    \* what to_bytes returned
  archive,    \* the bytes given to from_bytes
  corrupted,  \* whether a byte of the archive was changed
  stack,      \* the from_bytes calls in progress, the innermost last
  calls,      \* history: the from_bytes calls that returned
  heap,       \* the shared instances materialized so far
  REGISTRY,   \* per capability, the lazy cell of static REGISTRY
  result,     \* what the outermost from_bytes returned
  thr         \* per thread, the AsDynConverter call it runs

vars == <<phase, value, ctx_w, ctx_r, inventory, written, archive, corrupted,
          stack, calls, heap, REGISTRY, result, thr>>

NewFrame(ty, dynty, bytes, context) ==
  [ty |-> ty, dynty |-> dynty, bytes |-> bytes, pc |-> "new",
   de |-> CacheableDeserializer_new(context), val |-> <<>>, tmp |-> <<>>,
   events |-> {}, regs |-> <<>>, out |-> NoOut]

Top == stack[Len(stack)]
SetTop(f) == [stack EXCEPT ![Len(stack)] = f]
Reading == phase = "reading" /\ Len(stack) > 0
RootAt(f) == Len(f.bytes) - SizeOf(f.ty)
IsRoot(f) == f.ty \in {"Root8", "Root32"}
FirstPc(ty) ==
  IF ty \in {"Root8", "Root32"} THEN "plain"
  ELSE IF ty = "Json" THEN "j"
  ELSE IF ty = "Locked" THEN "l"
  ELSE IF ty = "DynRc" THEN "r"
  ELSE "fields"
Fail(f, e) == [f EXCEPT !.out = Err(e), !.pc = "ret"]

\* The capability behind the polymorphic field of the root types.
RootCap == "Module"

\* ---------------------------------------------------------------- actions
\* to_bytes(&value, &mut ctx_w)
ToBytes ==
  /\ phase = "start"
  /\ LET r == to_bytes(RootTy(value), value, ctx_w)
     IN  /\ written' = r
         /\ archive' = IF r.ok THEN r.bytes ELSE <<>>
  /\ phase' = "serialized"
  /\ UNCHANGED <<thr, value, ctx_w, ctx_r, inventory, corrupted, stack, calls, heap,
                 REGISTRY, result>>

\* from_bytes::<Root>(&archive, &mut ctx_r): the deserializer is created
FromBytes ==
  /\ phase = "serialized"
  /\ written.ok
  /\ stack' = <<NewFrame(RootTy(value), <<>>, archive, ctx_r)>>
  /\ phase' = "reading"
  /\ UNCHANGED <<thr, value, ctx_w, ctx_r, inventory, written, archive, corrupted, calls,
                 heap, REGISTRY, result>>

\* from_bytes: check_archived_root(bytes).map_err(CheckBytesError)?
Validate ==
  /\ Reading
  /\ Top.pc = "new"
  /\ LET e == from_bytes_check(Top.ty, Top.bytes)
     IN  stack' = SetTop(IF e = None THEN [Top EXCEPT !.pc = FirstPc(Top.ty)]
                         ELSE Fail(Top, e))
  /\ UNCHANGED <<thr, phase, value, ctx_w, ctx_r, inventory, written, archive, corrupted,
                 calls, heap, REGISTRY, result>>

\* the plain fields of the root: n and s
DeserializePlain ==
  /\ Reading
  /\ IsRoot(Top) /\ Top.pc = "plain"
  /\ LET b == Top.bytes
         root == RootAt(Top)
         s == Slice(b, ReadWord(b, root + 4), ReadWord(b, root + 8))
     IN  stack' = SetTop([Top EXCEPT !.val = ("n" :> b[root + 1]) @@ ("s" :> s) @@ @,
                                     !.pc = "p"])
  /\ UNCHANGED <<thr, phase, value, ctx_w, ctx_r, inventory, written, archive, corrupted,
                 calls, heap, REGISTRY, result>>

\* the string adapter's deserialize_with on field p
AsString_deserialize_with ==
  /\ Reading
  /\ IsRoot(Top) /\ Top.pc = "p"
  /\ LET b == Top.bytes
         root == RootAt(Top)
         text == Slice(b, ReadWord(b, root + 12), ReadWord(b, root + 16))
     IN  stack' = SetTop([Top EXCEPT !.val = ("p" :> PathBuf_from_str(text)) @@ @,
                                     !.events = @ \cup {"adapter"},
                                     !.pc = "a"])
  /\ UNCHANGED <<thr, phase, value, ctx_w, ctx_r, inventory, written, archive, corrupted,
                 calls, heap, REGISTRY, result>>

\* the string adapter's deserialize_with on the JsonValue field j:
\* AsStringConverter::from_str(field.as_str()) parses the archived text and
\* panics when json::parse rejects it
JsonValue_deserialize_with ==
  /\ Reading
  /\ Top.ty = "Json" /\ Top.pc = "j"
  /\ LET b == Top.bytes
         root == RootAt(Top)
         r == JsonValue_from_str(Slice(b, ReadWord(b, root), ReadWord(b, root + 4)))
     IN  IF r.tag = "panic"
         THEN /\ result' = r
              /\ stack' = <<>>
              /\ phase' = "done"
         ELSE /\ stack' = SetTop([Top EXCEPT !.val = [j |-> r.val],
                                             !.events = @ \cup {"adapter"},
                                             !.out = Ok([j |-> r.val]),
                                             !.pc = "ret"])
              /\ UNCHANGED <<result, phase>>
  /\ UNCHANGED <<thr, value, ctx_w, ctx_r, inventory, written, archive, corrupted, calls,
                 heap, REGISTRY>>

\* the Rc fields a and b
DeserializeShared ==
  /\ Reading
  /\ IsRoot(Top) /\ Top.pc \in {"a", "b"}
  /\ LET b == Top.bytes
         at == ReadWord(b, RootAt(Top) + (IF Top.pc = "a" THEN 20 ELSE 24))
         r == deserialize_shared(Top.de, heap, LeafKind(Top.ty), b, at)
         hit == r.ok /\ r.heap = heap
     IN  /\ stack' = SetTop(
               IF r.ok
               THEN [Top EXCEPT !.val = (Top.pc :> r.inst) @@ @,
                                !.de = r.de,
                                !.events = IF hit THEN @ ELSE @ \cup {"add_shared_ptr"},
                                !.regs = IF hit THEN @ ELSE Append(@, <<at, r.inst>>),
                                !.pc = IF Top.pc = "a" THEN "b" ELSE "d"]
               ELSE Fail([Top EXCEPT !.events = @ \cup {"add_shared_ptr", "duplicate"}],
                         r.err))
         /\ heap' = r.heap
  /\ UNCHANGED <<thr, phase, value, ctx_w, ctx_r, inventory, written, archive, corrupted,
                 calls, REGISTRY, result>>

\* AsDyn::deserialize_with on field d, up to the nested
\* from_bytes::<(String, Vec<u8>)> of AsDynConverter::from_bytes
AsDyn_deserialize_with ==
  /\ Reading
  /\ IsRoot(Top) /\ Top.pc = "d"
  /\ LET b == Top.bytes
         root == RootAt(Top)
         field == Slice(b, ReadWord(b, root + 28), ReadWord(b, root + 32))
         caller == [Top EXCEPT !.events = @ \cup {"adapter", "get_context"},
                               !.pc = "d_pair"]
     IN  stack' = Append(SetTop(caller),
                         NewFrame("Pair", <<>>, field, de_get_context(Top.de)))
  /\ UNCHANGED <<thr, phase, value, ctx_w, ctx_r, inventory, written, archive, corrupted,
                 calls, heap, REGISTRY, result>>

\* The value of an archived (String, Vec<u8>) and of an archived concrete
\* type behind Box<dyn Trait>.
PairValue(bytes) ==
  LET root == Len(bytes) - SizeOf("Pair")
  IN  <<Slice(bytes, ReadWord(bytes, root), ReadWord(bytes, root + 4)),
        Slice(bytes, ReadWord(bytes, root + 8), ReadWord(bytes, root + 12))>>

DynValue(dynty, bytes) == [ty |-> dynty, x |-> bytes[Len(bytes) - SizeOf("Dyn") + 1]]

\* from_bytes of a type without adapters, as one step
from_bytes_checked(ty, dynty, bytes, check) ==
  IF check # None THEN Err(check)
  ELSE Ok(IF ty = "Pair" THEN PairValue(bytes) ELSE DynValue(dynty, bytes))
from_bytes_plain(ty, dynty, bytes) ==
  from_bytes_checked(ty, dynty, bytes, from_bytes_check(ty, bytes))

\* the fields of (String, Vec<u8>)
PairFields ==
  /\ Reading
  /\ Top.ty = "Pair" /\ Top.pc = "fields"
  /\ stack' = SetTop([Top EXCEPT !.out = Ok(PairValue(Top.bytes)), !.pc = "ret"])
  /\ UNCHANGED <<thr, phase, value, ctx_w, ctx_r, inventory, written, archive, corrupted,
                 calls, heap, REGISTRY, result>>

\* the fields of a concrete type behind Box<dyn Trait>
DynFields ==
  /\ Reading
  /\ Top.ty = "Dyn" /\ Top.pc = "fields"
  /\ stack' = SetTop([Top EXCEPT !.out = Ok(DynValue(Top.dynty, Top.bytes)),
                                  !.pc = "ret"])
  /\ UNCHANGED <<thr, phase, value, ctx_w, ctx_r, inventory, written, archive, corrupted,
                 calls, heap, REGISTRY, result>>

\* <dyn Trait>::cacheable_flag(name, deserialize), submitted by impl_impl
Flag(cap, ty) == [cap |-> cap, name |-> cacheable_dyn_type_name(ty), deserialize |-> ty]

\* Mutant of REGISTRY_get: the name is not compared, the lookup returns an
\* entry of the map whatever the name.
REGISTRY_get_any(cell, name) ==
  IF DOMAIN cell.map # {}
  THEN [some |-> TRUE, cell |-> cell,
        deserialize |-> cell.map[CHOOSE n \in DOMAIN cell.map : TRUE]]
  ELSE [some |-> FALSE, deserialize |-> <<>>, cell |-> cell]

\* Mutant of REGISTRY_get: the entry found is taken out of the map.
REGISTRY_get_remove(cell, name) ==
  IF name \in DOMAIN cell.map
  THEN [some |-> TRUE, deserialize |-> cell.map[name],
        cell |-> [cell EXCEPT !.map = [n \in DOMAIN cell.map \ {name} |-> cell.map[n]]]]
  ELSE [some |-> FALSE, deserialize |-> <<>>, cell |-> cell]

\* REGISTRY.get(name): the function registered under name, and the cell
\* as the lookup leaves it
REGISTRY_get(cell, name) ==
  IF name \in DOMAIN cell.map
  THEN [some |-> TRUE, deserialize |-> cell.map[name], cell |-> cell]
  ELSE [some |-> FALSE, deserialize |-> <<>>, cell |-> cell]

\* AsDynConverter::from_bytes after the pair was read: REGISTRY.get(name)
\* .expect(..), then deserialize_fn(&data, context), which runs the nested
\* from_bytes::<Self> of __cacheable_dyn_from_data
RegistryLookup ==
  /\ Reading
  /\ IsRoot(Top) /\ Top.pc = "d_lookup"
  /\ LET name == Top.tmp[1]
         forced == Lazy_force(REGISTRY[RootCap], FlagsOf(inventory, RootCap))
         got == REGISTRY_get(forced.cell, name)
         caller == [Top EXCEPT !.events = @ \cup {"registry_lookup"}, !.pc = "d_data"]
     IN  /\ REGISTRY' = [REGISTRY EXCEPT ![RootCap] = got.cell]
         /\ IF ~forced.ok
            THEN /\ result' = Panic(forced.panic, forced.name)
                 /\ stack' = <<>>
                 /\ phase' = "done"
            ELSE IF ~got.some
            THEN /\ result' = Panic("unsupport data type when deserialize", name)
                 /\ stack' = <<>>
                 /\ phase' = "done"
            ELSE /\ stack' = Append(SetTop(caller),
                                    NewFrame(DynTy(got.deserialize), got.deserialize,
                                             Top.tmp[2],
                                             de_get_context(Top.de)))
                 /\ UNCHANGED <<result, phase>>
  /\ UNCHANGED <<thr, value, ctx_w, ctx_r, inventory, written, archive, corrupted, calls,
                 heap>>

\* The context for which the reconstruction function of the skipped field
\* returns an error.
FailEnv == 1

\* SkipDeserialize::deserialize(ctx) of the skipped field's type: a
\* Result<Self, DeserializeError> computed from the context alone
SkipDeserialize_deserialize(context) ==
  IF context.env = FailEnv THEN Err("CheckBytesError") ELSE Ok(context.env)

\* the root with its last field, or the error of the field's function
Skip_field(f, r) ==
  IF r.tag = "err" THEN Fail(f, r.err)
  ELSE [f EXCEPT !.val = ("k" :> r.val) @@ @, !.out = Ok(("k" :> r.val) @@ f.val),
                 !.pc = "ret"]

\* SkipWithDeserialize::deserialize_with on field k; the root is complete
Skip_deserialize_with ==
  /\ Reading
  /\ IsRoot(Top) /\ Top.pc = "k"
  /\ stack' = SetTop(Skip_field([Top EXCEPT !.events = @ \cup {"adapter", "get_context"}],
                                SkipDeserialize_deserialize(de_get_context(Top.de))))
  /\ UNCHANGED <<thr, phase, value, ctx_w, ctx_r, inventory, written, archive, corrupted,
                 calls, heap, REGISTRY, result>>

CallRecord(f) ==
  [ty |-> f.ty, dynty |-> f.dynty, bytes |-> f.bytes, context |-> f.de.context,
   events |-> f.events, regs |-> f.regs, val |-> f.val, out |-> f.out]

\* a nested from_bytes returns to the adapter that called it; the adapter
\* passes an error on with `?`
Return ==
  /\ Reading
  /\ Len(stack) > 1 /\ Top.pc = "ret"
  /\ LET caller == stack[Len(stack) - 1]
         next == IF Top.out.tag = "err" THEN Fail(caller, Top.out.err)
                 ELSE IF caller.pc = "d_pair"
                 THEN [caller EXCEPT !.tmp = Top.out.val, !.pc = "d_lookup"]
                 ELSE [caller EXCEPT !.val = ("d" :> Top.out.val) @@ @, !.pc = "k"]
     IN  stack' = Append(SubSeq(stack, 1, Len(stack) - 2), next)
  /\ calls' = calls \cup {CallRecord(Top)}
  /\ UNCHANGED <<thr, phase, value, ctx_w, ctx_r, inventory, written, archive, corrupted,
                 heap, REGISTRY, result>>

\* the outermost from_bytes returns
Finish ==
  /\ Reading
  /\ Len(stack) = 1 /\ Top.pc = "ret"
  /\ result' = Top.out
  /\ calls' = calls \cup {CallRecord(Top)}
  /\ stack' = <<>>
  /\ phase' = "done"
  /\ UNCHANGED <<thr, value, ctx_w, ctx_r, inventory, written, archive, corrupted, heap,
                 REGISTRY>>

\* ---------------------------------------------------------------- threads
\* Threads that each run one AsDynConverter call on a Box<dyn Trait> of some
\* capability, sharing the static REGISTRY of that capability.
Threads == 1..NumThreads

Idle ==
  [pc |-> "idle", op |-> None, cap |-> None, name |-> <<>>, data |-> <<>>,
   looked |-> FALSE, fn |-> <<>>, seen |-> <<>>, out |-> NoOut,
   val |-> <<>>, ctx |-> <<>>, todo |-> <<>>, acc |-> <<>>, rd |-> <<>>]

SerVars == <<phase, value, ctx_w, ctx_r, inventory, written, archive, corrupted,
             stack, calls, heap, result>>

Cell(t) == REGISTRY[thr[t].cap]

Registered(records, cap) ==
  {records[i].deserialize : i \in {j \in 1..Len(records) : records[j].cap = cap}}

\* The concrete types a thread may hold behind Box<dyn Trait>, or find named
\* in a payload; TypeC is never registered.
DynTypes == {TypeA, TypeB, TypeA2, TypeC}

\* AsDynConverter::to_bytes of a value of each type, context [env |-> 0].
PayloadOf == [ty \in DynTypes |-> AsDynConverter_to_bytes([ty |-> ty, x |-> 255], [env |-> 0])]

\* Result<Vec<u8>, SerializeError> of to_bytes as a thread's outcome
OutOf(r) == IF r.ok THEN Ok(r.bytes) ELSE Err(r.err)

\* let (name, data) = from_bytes::<(String, Vec<u8>), _>(..)?
Decoded(cap, pair) ==
  IF pair.tag = "err"
  THEN [Idle EXCEPT !.pc = "done", !.op = "from_bytes", !.cap = cap, !.out = pair]
  ELSE [Idle EXCEPT !.pc = "force", !.op = "from_bytes", !.cap = cap,
                    !.name = pair.val[1], !.data = pair.val[2]]

\* AsDynConverter::to_bytes(&box, ctx): the registry is not consulted
ThreadToBytes(t) ==
  /\ thr[t].pc = "idle"
  /\ \E ty \in Registered(inventory, RootCap) :
       thr' = [thr EXCEPT ![t] = [Idle EXCEPT
                 !.pc = "done", !.op = "to_bytes", !.cap = RootCap,
                 !.out = OutOf(PayloadOf[ty])]]
  /\ UNCHANGED <<SerVars, REGISTRY>>

\* AsDynConverter::from_bytes(bytes, ctx), up to REGISTRY.get: the nested
\* from_bytes::<(String, Vec<u8>)>
ThreadFromBytes(t) ==
  /\ thr[t].pc = "idle"
  /\ \E cap \in Caps : \E ty \in {TypeA, TypeB, TypeC} :
       /\ cap = "Dependency" => ty = TypeA
       /\ thr' = [thr EXCEPT ![t] =
                   Decoded(cap, from_bytes_plain("Pair", <<>>, PayloadOf[ty].bytes))]
  /\ UNCHANGED <<SerVars, REGISTRY>>

\* Lazy::force, the cell is complete: the value is there
LazyFast(t) ==
  /\ thr[t].pc = "force"
  /\ Cell(t).state = "complete"
  /\ thr' = [thr EXCEPT ![t].pc = "get"]
  /\ UNCHANGED <<SerVars, REGISTRY>>

\* Lazy::force, the cell is incomplete: the thread that wins the
\* compare-exchange initializes; a thread that finds the cell running waits
LazyEnter(t) ==
  /\ thr[t].pc = "force"
  /\ Lazy_can_enter(Cell(t))
  /\ REGISTRY' = [REGISTRY EXCEPT ![thr[t].cap].state = "running"]
  /\ thr' = [thr EXCEPT ![t].pc = "init"]
  /\ UNCHANGED SerVars

\* the initializing thread takes the closure and runs it
LazyInit(t) ==
  /\ thr[t].pc = "init"
  /\ LET r == Lazy_run(Cell(t), FlagsOf(inventory, thr[t].cap))
     IN  /\ REGISTRY' = [REGISTRY EXCEPT ![thr[t].cap] = r.cell]
         /\ thr' = [thr EXCEPT ![t] =
               IF r.ok THEN [@ EXCEPT !.pc = "get"]
               ELSE [@ EXCEPT !.pc = "panicked", !.out = Panic(r.panic, r.name)]]
  /\ UNCHANGED SerVars

\* REGISTRY.get(name).expect(..), then deserialize_fn(&data, context)
ThreadGet(t) ==
  /\ thr[t].pc = "get"
  /\ LET got == REGISTRY_get(Cell(t), thr[t].name)
     IN  /\ REGISTRY' = [REGISTRY EXCEPT ![thr[t].cap] = got.cell]
         /\ thr' = [thr EXCEPT ![t] =
               IF got.some
               THEN [@ EXCEPT !.pc = "done", !.looked = TRUE, !.fn = got.deserialize,
                              !.seen = Cell(t).map,
                              !.out = from_bytes_plain("Dyn", got.deserialize,
                                                      thr[t].data)]
               ELSE [@ EXCEPT !.pc = "panicked", !.looked = TRUE, !.seen = Cell(t).map,
                              !.out = Panic("unsupport data type when deserialize",
                                            thr[t].name)]]
  /\ UNCHANGED SerVars

\* ------------------------------------------------------------------- Init
Strs == UNION {[1..n -> {97}] : n \in 0..MaxStrLen}
Paths == {<<47>>, <<255>>}
Contexts == [env : Prims]
LeafKinds == {"u8", "u32"}

Inventories ==
  LET mA == Flag("Module", TypeA)
      mB == Flag("Module", TypeB)
      mA2 == Flag("Module", TypeA2)
      dA == Flag("Dependency", TypeA)
  IN  {<<mA, mB, dA>>, <<mA, mB, mA2>>}

RootValues(records) ==
  {[n |-> n, s |-> s, p |-> p, a |-> a, b |-> b, d |-> d, k |-> k] :
     n \in Prims, s \in Strs, p \in Paths,
     a \in [addr : {1}, kind : LeafKinds, val : Prims],
     b \in [addr : {1, 2}, kind : LeafKinds, val : Prims],
     d \in [ty : Registered(records, RootCap), x : Prims],
     k \in Prims}

\* One address holds one value, and both Rc fields have the type of the root.
WellFormed(v) ==
  /\ v.a.kind = v.b.kind
  /\ v.a.addr = v.b.addr => v.a.val = v.b.val

InitCommon ==
  /\ phase = "start"
  /\ ctx_w = [env |-> 0]
  /\ written = [ok |-> FALSE, err |-> None]
  /\ archive = <<>>
  /\ corrupted = FALSE
  /\ stack = <<>>
  /\ calls = {}
  /\ heap = <<>>
  /\ REGISTRY = [c \in Caps |-> LazyNew]
  /\ result = NoOut
  /\ thr = [t \in Threads |-> Idle]

Init ==
  /\ inventory \in Inventories
  /\ value \in {v \in RootValues(inventory) : WellFormed(v)}
  /\ ctx_r \in Contexts
  /\ InitCommon

Next ==
  \/ ToBytes
  \/ FromBytes
  \/ Validate
  \/ DeserializePlain
  \/ AsString_deserialize_with
  \/ DeserializeShared
  \/ AsDyn_deserialize_with
  \/ PairFields
  \/ RegistryLookup
  \/ DynFields
  \/ Skip_deserialize_with
  \/ Return
  \/ Finish

Spec == Init /\ [][Next]_vars

\* One byte of the archive is changed before it is read.
CorruptBytes == {0, 1, 128, 255}

Corrupt ==
  /\ phase = "serialized"
  /\ written.ok
  /\ ~corrupted
  /\ \E i \in 1..Len(archive) : \E b \in CorruptBytes \ {archive[i]} :
       archive' = [archive EXCEPT ![i] = b]
  /\ corrupted' = TRUE
  /\ UNCHANGED <<thr, phase, value, ctx_w, ctx_r, inventory, written, stack, calls, heap,
                 REGISTRY, result>>

\* A hand-written Deserialize of an Rc field that registers the instance it
\* built with add_shared_ptr, without asking get_shared_ptr first, and
\* passes an error on with `?`.
RegisterShared ==
  /\ Reading
  /\ IsRoot(Top) /\ Top.pc \in {"a", "b"}
  /\ LET b == Top.bytes
         at == ReadWord(b, RootAt(Top) + (IF Top.pc = "a" THEN 20 ELSE 24))
         inst == Len(heap) + 1
         r == de_add_shared_ptr(Top.de, at, inst)
     IN  IF r.ok
         THEN /\ stack' = SetTop([Top EXCEPT
                                    !.val = (Top.pc :> inst) @@ @,
                                    !.de = r.de,
                                    !.events = @ \cup {"add_shared_ptr"},
                                    !.regs = Append(@, <<at, inst>>),
                                    !.pc = IF Top.pc = "a" THEN "b" ELSE "d"])
              /\ heap' = Append(heap, ReadLeaf(LeafKind(Top.ty), b, at))
         ELSE /\ stack' = SetTop(Fail([Top EXCEPT
                                         !.events = @ \cup {"add_shared_ptr", "duplicate"}],
                                      r.err))
              /\ heap' = heap
  /\ UNCHANGED <<thr, phase, value, ctx_w, ctx_r, inventory, written, archive, corrupted,
                 calls, REGISTRY, result>>

\* The representative values whose archives are corrupted.
Representative(v) ==
  /\ WellFormed(v)
  /\ v.n = 255 /\ v.s = <<97>> /\ v.p = <<47>> /\ v.k = 0
  /\ v.a.val = 255 /\ v.b.val = 255
  /\ v.d = [ty |-> TypeA, x |-> 255]

InitCorrupt ==
  /\ inventory = <<Flag("Module", TypeA), Flag("Module", TypeB), Flag("Dependency", TypeA)>>
  /\ value \in {v \in RootValues(inventory) : Representative(v)}
  /\ ctx_r = [env |-> 0]
  /\ InitCommon

NextCorrupt == Next \/ Corrupt

SpecCorrupt == InitCorrupt /\ [][NextCorrupt]_vars

InitShared ==
  /\ inventory = <<Flag("Module", TypeA), Flag("Module", TypeB), Flag("Dependency", TypeA)>>
  /\ value \in {v \in RootValues(inventory) :
                  WellFormed(v) /\ v.n = 0 /\ v.p = <<47>> /\ v.k = 0 /\ v.d.ty = TypeA}
  /\ ctx_r = [env |-> 0]
  /\ InitCommon

NextShared == Next \/ RegisterShared

SpecShared == InitShared /\ [][NextShared]_vars

\* ----------------------------------------------------------------- claims
UniqueTags(records, cap) ==
  \A i, j \in 1..Len(records) :
    (i # j /\ records[i].cap = cap /\ records[j].cap = cap)
      => records[i].name # records[j].name

\* Equality of the restored root r with the original v on every field but
\* the skipped one; an Rc field is compared by the value of its instance.
RestoredEq(v, r) ==
  /\ r.n = v.n
  /\ r.s = v.s
  /\ r.p = v.p
  /\ heap[r.a] = v.a.val
  /\ heap[r.b] = v.b.val
  /\ r.d = v.d

\* C1 (as claimed, in a process whose tags are unique): a value that
\* to_bytes accepted comes back from from_bytes equal on every field that
\* is not skipped.
C1_RoundTrip ==
  (phase = "done" /\ ~corrupted /\ UniqueTags(inventory, RootCap))
    => (result.tag = "ok" /\ RestoredEq(value, result.val))

Untouched(f) ==
  /\ f.events = {}
  /\ f.regs = <<>>
  /\ DOMAIN f.val = {}

\* C2: in every from_bytes call, outermost or nested, nothing is
\* materialized before the validation of the call's bytes has passed; a
\* call whose bytes are invalid ends with CheckBytesError having run no
\* adapter, read no context, registered no shared pointer and looked up no
\* registry.
C2_ValidateThenMaterialize ==
  /\ \A i \in 1..Len(stack) :
       LET f == stack[i]
       IN  /\ f.pc = "new" => Untouched(f) /\ DOMAIN f.de.shared = {}
           /\ ~check_archived_root(f.ty, f.bytes) =>
                /\ Untouched(f) /\ DOMAIN f.de.shared = {}
                /\ f.pc \in {"new", "ret"}
                /\ f.pc = "ret" => f.out = Err("CheckBytesError")
  /\ \A c \in calls :
       ~check_archived_root(c.ty, c.bytes) =>
         Untouched(c) /\ c.out = Err("CheckBytesError")
  /\ (phase = "done" /\ ~check_archived_root(RootTy(value), archive)) =>
       /\ result = Err("CheckBytesError")
       /\ heap = <<>>
       /\ REGISTRY = [c \in Caps |-> LazyNew]

C2_Witness ==
  /\ phase = "done"
  /\ corrupted
  /\ ~check_archived_root(RootTy(value), archive)
  /\ result = Err("CheckBytesError")

\* C3 (as claimed): an archive one byte of which was changed is rejected
\* with CheckBytesError.
C3_ByteChangeRejected ==
  (phase = "done" /\ corrupted) => result = Err("CheckBytesError")

\* The value v with its two Rc fields made independent.
Unshared(v) == [v EXCEPT !.b.addr = 2]
IndependentLen == Len(to_bytes(RootTy(value), Unshared(value), ctx_w).bytes)
Serialized == phase = "serialized" /\ written.ok /\ ~corrupted
SharedOnce == value.a.addr = value.b.addr

\* C4 (as claimed): the archive of a graph with two references to one
\* shared value is strictly shorter than with two independent copies.
C4_SharedStrictlyShorter ==
  (Serialized /\ SharedOnce) => Len(archive) < IndependentLen

\* C4 (amended): the shared value is emitted at its first encounter only,
\* its address is recorded with that position, and both pointers hold that
\* position; the archive is never longer than with two independent copies,
\* and it is shorter by exactly the size of the value when the value is a
\* u32, whose size alignment padding cannot absorb.
C4_SharedEmittedOnce ==
  Serialized =>
    LET root == Len(archive) - SizeOf(RootTy(value))
        a_at == ReadWord(archive, root + 20)
        b_at == ReadWord(archive, root + 24)
        sz == SizeOf(value.a.kind)
        ser == serialize_value(CacheableSerializer_new(ctx_w), RootTy(value), value)
    IN  /\ Slice(archive, a_at, sz) = LeafBytes(value.a)
        /\ Slice(archive, b_at, sz) = LeafBytes(value.b)
        /\ ser_get_shared_ptr(ser, value.a.addr) = [some |-> TRUE, at |-> a_at]
        /\ ser_get_shared_ptr(ser, value.b.addr) = [some |-> TRUE, at |-> b_at]
        /\ SharedOnce =>
             /\ a_at = b_at
             /\ Len(archive) <= IndependentLen
             /\ value.a.kind = "u32" => Len(archive) + sz = IndependentLen
        /\ ~SharedOnce => a_at # b_at

C4_Witness ==
  /\ Serialized /\ SharedOnce
  /\ value.a.kind = "u8"
  /\ Len(archive) = IndependentLen

\* C5: after a round trip of a graph whose two Rc fields held one shared
\* value, both restored fields are one instance: the value was
\* materialized once and the second field was found in the shared table
\* under the offset of the first.
C5_IdentityRestored ==
  (phase = "done" /\ ~corrupted /\ result.tag = "ok" /\ SharedOnce) =>
    /\ result.val.a = result.val.b
    /\ Len(heap) = 1
    /\ heap[result.val.a] = value.a.val
    /\ \E c \in calls : IsRoot(c) /\ Len(c.regs) = 1 /\ c.regs[1][2] = result.val.a

C5_Witness ==
  /\ phase = "done" /\ ~corrupted /\ result.tag = "ok" /\ SharedOnce
  /\ result.val.a = result.val.b

Registrations(f) == {f.regs[i][1] : i \in 1..Len(f.regs)}

\* C6: in one from_bytes call an offset is registered at most once; the
\* instance registered first stays in the table; an add_shared_ptr for a
\* registered offset returns DuplicateSharedPointer, which the call, and
\* with it the outermost from_bytes, returns.
C6_DuplicateRejected ==
  /\ \A i \in 1..Len(stack) :
       LET f == stack[i]
       IN  /\ Cardinality(Registrations(f)) = Len(f.regs)
           /\ \A j \in 1..Len(f.regs) :
                /\ f.regs[j][1] \in DOMAIN f.de.shared
                /\ f.de.shared[f.regs[j][1]] = f.regs[j][2]
           /\ "duplicate" \in f.events =>
                f.pc = "ret" /\ f.out = Err("DuplicateSharedPointer")
  /\ \A c \in calls :
       /\ Cardinality(Registrations(c)) = Len(c.regs)
       /\ "duplicate" \in c.events => c.out = Err("DuplicateSharedPointer")
  /\ (phase = "done" /\ \E c \in calls : "duplicate" \in c.events) =>
       result = Err("DuplicateSharedPointer")

C6_Witness ==
  /\ phase = "done"
  /\ result = Err("DuplicateSharedPointer")
  /\ \E c \in calls : "duplicate" \in c.events /\ Len(c.regs) = 1

\* The registration records of a process, in every iteration order.
Perms(S) ==
  {f \in [1..Cardinality(S) -> S] : \A i, j \in 1..Cardinality(S) : i # j => f[i] # f[j]}

RegInventories ==
  Perms({Flag("Module", TypeA), Flag("Module", TypeB), Flag("Dependency", TypeA)})
    \cup Perms({Flag("Module", TypeA), Flag("Module", TypeB), Flag("Module", TypeA2)})

InitReg ==
  /\ inventory \in RegInventories
  /\ value = CHOOSE v \in RootValues(inventory) : Representative(v)
  /\ ctx_r = [env |-> 0]
  /\ InitCommon

NextReg ==
  \E t \in Threads :
    \/ ThreadToBytes(t)
    \/ ThreadFromBytes(t)
    \/ LazyFast(t)
    \/ LazyEnter(t)
    \/ LazyInit(t)
    \/ ThreadGet(t)

SpecReg == InitReg /\ [][NextReg]_vars

\* C7: when two records of one capability carry the same tag, every attempt
\* to build that capability's registry fails with the same error, and no
\* lookup in that registry returns a function.
C7_SameErrorEveryAttempt ==
  \A cap \in Caps :
    ~UniqueTags(inventory, cap) =>
      /\ REGISTRY[cap].state # "complete"
      /\ \A t \in Threads : thr[t].cap = cap => ~thr[t].looked
      /\ \A t1, t2 \in Threads :
           /\ thr[t1].cap = cap /\ thr[t1].pc = "panicked"
           /\ thr[t2].cap = cap /\ thr[t2].pc = "panicked"
           => thr[t1].out = thr[t2].out

\* C8: in a process where a capability has a duplicate tag, no to_bytes and
\* no from_bytes of a polymorphic value of that capability returns Ok.
C8_NoCacheWorkWithDuplicate ==
  \A t \in Threads :
    (thr[t].cap \in Caps /\ ~UniqueTags(inventory, thr[t].cap)) => thr[t].out.tag # "ok"

\* C9: under every interleaving of the threads' first uses, the closure of a
\* capability's REGISTRY runs at most once, one thread at a time is in it,
\* and every thread that gets past the build looks up in the one table that
\* the single run left in the cell.
C9_BuildOnce ==
  \A cap \in Caps :
    /\ REGISTRY[cap].runs <= 1
    /\ Cardinality({t \in Threads : thr[t].cap = cap /\ thr[t].pc = "init"}) <= 1
    /\ \A t \in Threads :
         (thr[t].cap = cap /\ thr[t].pc \in {"get", "done", "panicked"}
            /\ thr[t].op = "from_bytes" /\ UniqueTags(inventory, cap))
         => /\ REGISTRY[cap].runs = 1
            /\ REGISTRY[cap].state = "complete"
            /\ REGISTRY[cap].map = registry_init(FlagsOf(inventory, cap)).map
            /\ thr[t].looked => thr[t].seen = REGISTRY[cap].map

C9_Witness ==
  \E t1, t2 \in Threads :
    /\ t1 # t2
    /\ thr[t1].cap = thr[t2].cap
    /\ thr[t1].looked /\ thr[t2].looked
    /\ REGISTRY[thr[t1].cap].runs = 1

\* C10: once a capability's registry is built, no step of any thread (a lookup,
\* a to_bytes, a from_bytes) changes it, and two lookups of the same tag
\* have returned the same function.
C10_Step ==
  \A cap \in Caps : REGISTRY[cap].state = "complete" => REGISTRY'[cap] = REGISTRY[cap]

C10_SameFunction ==
  \A t1, t2 \in Threads :
    /\ thr[t1].looked /\ thr[t2].looked
    /\ thr[t1].cap = thr[t2].cap /\ thr[t1].name = thr[t2].name
    => /\ thr[t1].out.tag = thr[t2].out.tag
       /\ thr[t1].fn = thr[t2].fn

C10_ImmutableAfterBuild == [][C10_Step]_vars /\ []C10_SameFunction

C10_Witness ==
  \E t1, t2 \in Threads :
    /\ t1 # t2
    /\ thr[t1].looked /\ thr[t2].looked
    /\ thr[t1].cap = thr[t2].cap /\ thr[t1].name = thr[t2].name
    /\ thr[t1].out.tag = "ok"
    /\ REGISTRY[thr[t1].cap].state = "complete"

\* C11 (as claimed): a from_bytes of a payload whose tag no type of the
\* capability registered returns an error to its caller; it does not panic.
C11_UnknownTagIsError ==
  \A t \in Threads :
    (/\ thr[t].op = "from_bytes" /\ thr[t].pc \in {"done", "panicked"}
     /\ UniqueTags(inventory, thr[t].cap)
     /\ \A i \in 1..Len(inventory) :
          inventory[i].cap = thr[t].cap => inventory[i].name # thr[t].name)
    => thr[t].out.tag = "err"

\* A round trip with every context the reader may be given, the failing
\* one included.
InitSkip ==
  /\ inventory = <<Flag("Module", TypeA), Flag("Module", TypeB), Flag("Dependency", TypeA)>>
  /\ value \in {v \in RootValues(inventory) :
                  /\ WellFormed(v)
                  /\ v.n = 0 /\ v.p = <<47>> /\ v.a.val = 0 /\ v.b.val = 0
                  /\ v.d = [ty |-> TypeA, x |-> 0]}
  /\ ctx_r \in [env : Prims \cup {FailEnv}]
  /\ InitCommon

SpecSkip == InitSkip /\ [][Next]_vars

\* C12: the skipped field leaves no byte in the archive (the archive is the
\* one of the same value with any other content of that field), and
\* from_bytes gives the field what the reconstruction function returns for
\* the reader's context, or returns that function's error.
C12_SkipReconstructed ==
  /\ Serialized =>
       \A k \in Prims : archive = to_bytes(RootTy(value), [value EXCEPT !.k = k], ctx_w).bytes
  /\ phase = "done" =>
       IF SkipDeserialize_deserialize(ctx_r).tag = "err"
       THEN result = SkipDeserialize_deserialize(ctx_r)
       ELSE /\ result.tag = "ok"
            /\ result.val.k = SkipDeserialize_deserialize(ctx_r).val

C12_Witness ==
  /\ phase = "done"
  /\ result.tag = "ok"
  /\ result.val.k # value.k

\* The payload of the polymorphic field as the archive holds it.
DynPayload ==
  LET root == Len(archive) - SizeOf(RootTy(value))
  IN  PairValue(Slice(archive, ReadWord(archive, root + 28), ReadWord(archive, root + 32)))

\* C13: in a process whose tags are unique, the boxed value is written as
\* the pair (tag of its type, its bytes); the function run on read is the
\* one registered under that tag, run on those bytes with the context of
\* the enclosing from_bytes; the restored box equals the original.
C13_Dispatch ==
  /\ Serialized =>
       /\ DynPayload[1] = cacheable_dyn_type_name(value.d.ty)
       /\ DynPayload[2] = to_bytes("Dyn", value.d, ctx_w).bytes
  /\ UniqueTags(inventory, RootCap) =>
       /\ \A c \in calls :
            c.ty = "Dyn" =>
              /\ c.dynty = registry_init(FlagsOf(inventory, RootCap)).map[DynPayload[1]]
              /\ c.bytes = DynPayload[2]
              /\ c.context = ctx_r
       /\ phase = "done" =>
            /\ result.tag = "ok"
            /\ result.val.d = value.d
            /\ \E c \in calls : c.ty = "Dyn" /\ c.out = Ok(value.d)

C13_Witness ==
  /\ phase = "done"
  /\ result.tag = "ok"
  /\ value.d.ty = TypeB
  /\ ctx_r.env = 255
  /\ result.val.d = value.d

\* A to_bytes call that meets a resource failure, or none.
Faults ==
  {NoFault} \cup [op : {"buffer", "scratch", "shared"}, nth : 1..MaxFaultAt]

InitFault ==
  /\ inventory = <<Flag("Module", TypeA), Flag("Module", TypeB), Flag("Dependency", TypeA)>>
  /\ value \in {v \in RootValues(inventory) :
                  /\ WellFormed(v)
                  /\ v.n = 0 /\ v.p = <<47>> /\ v.k = 0 /\ v.a.val = 0 /\ v.b.val = 0
                  /\ v.d.x = 0}
  /\ ctx_w \in [env : {0}, fault : Faults]
  /\ ctx_r = [env |-> 0]
  /\ phase = "start"
  /\ written = [ok |-> FALSE, err |-> None]
  /\ archive = <<>>
  /\ corrupted = FALSE
  /\ stack = <<>>
  /\ calls = {}
  /\ heap = <<>>
  /\ REGISTRY = [c \in Caps |-> LazyNew]
  /\ result = NoOut
  /\ thr = [t \in Threads |-> Idle]

SpecFault == InitFault /\ [][Next]_vars

\* The SerializeError variant of each component.
VariantOf(op) ==
  CASE op = "buffer" -> "SerializerError"
    [] op = "scratch" -> "ScratchSpaceError"
    [] op = "shared" -> "SharedError"
    [] OTHER -> None

\* C14: to_bytes fails exactly when an operation fails; it then returns the
\* variant of the failing component, the failing operation was attempted
\* once, and an error of the nested to_bytes of the polymorphic payload is
\* the error the outermost to_bytes returns.
C14_ErrorsPropagate ==
  phase # "start" =>
    /\ FaultOf(ctx_w).op = "none" => written.ok
    /\ (FaultOf(ctx_w).op # "none" /\ FaultOf(ctx_w).nth = 1) => ~written.ok
    /\ ~written.ok =>
         /\ written.err = VariantOf(FaultOf(ctx_w).op)
         /\ written.attempts = 1
    /\ ~AsDynConverter_to_bytes(value.d, ctx_w).ok =>
         written = AsDynConverter_to_bytes(value.d, ctx_w)

C14_Witness ==
  /\ phase = "serialized"
  /\ FaultOf(ctx_w) = [op |-> "scratch", nth |-> 1]
  /\ AsDynConverter_to_bytes(value.d, ctx_w).err = "ScratchSpaceError"
  /\ written = [ok |-> FALSE, err |-> "ScratchSpaceError", attempts |-> 1]

\* ------------------------------------------------ the JsonValue field
JsonValues ==
  {JsonNull, JsonArray} \cup {JsonBoolean(b) : b \in BOOLEAN}
    \cup {JsonNumber(n) : n \in {0, 7}}

\* A struct with one JsonValue field is written, its archive is read back as
\* written or with one byte changed.
InitJson ==
  /\ inventory = <<Flag("Module", TypeA), Flag("Module", TypeB), Flag("Dependency", TypeA)>>
  /\ value \in [j : JsonValues]
  /\ ctx_r = [env |-> 0]
  /\ InitCommon

NextJson ==
  \/ ToBytes
  \/ Corrupt
  \/ FromBytes
  \/ Validate
  \/ JsonValue_deserialize_with
  \/ Finish

SpecJson == InitJson /\ [][NextJson]_vars

\* C15: a from_bytes call that has ended has returned a value or a
\* DeserializeError of one of the two variants; it has not ended in any
\* other way.
C15_ValueOrError ==
  phase = "done" =>
    \/ result.tag = "ok"
    \/ result.tag = "err" /\ result.err \in {"CheckBytesError", "DuplicateSharedPointer"}

\* ------------------------------------- calls of two threads, interleaved
\* Each thread runs one to_bytes or one from_bytes of a root value, a field
\* at a time.  The serializer (buffer, scratch, shared table) and the
\* deserializer (shared table) are locals of the call: acc and rd of the
\* calling thread.  The static REGISTRY is the one thing the calls share.

\* The values written, with one or two shared addresses, and the value whose
\* archive is read.
ParValue(kind, addr) ==
  [n |-> 255, s |-> <<97>>, p |-> <<47>>, k |-> 0, d |-> [ty |-> TypeA, x |-> 255],
   a |-> [addr |-> 1, kind |-> kind, val |-> 255],
   b |-> [addr |-> addr, kind |-> kind, val |-> 255]]
ParWritten == {ParValue("u8", 1), ParValue("u8", 2)}
ParRead == {ParValue("u32", 1), ParValue("u32", 2)}

ArchiveOf(v) == to_bytes(RootTy(v), v, [env |-> 0]).bytes

\* from_bytes: `let mut deserializer = CacheableDeserializer::new(context)`
NewRead(ty, bytes, context) ==
  [ty |-> ty, bytes |-> bytes, pc |-> "new", de |-> CacheableDeserializer_new(context),
   heap |-> <<>>, val |-> <<>>, out |-> NoOut]

ReadFail(rd, out) == [rd EXCEPT !.out = out, !.pc = "done"]

\* check_archived_root
ReadCheck(rd, e) == IF e = None THEN [rd EXCEPT !.pc = "plain"] ELSE ReadFail(rd, Err(e))

\* the plain fields n and s and the string adapter's field p
ReadPlain(rd, root) ==
  [rd EXCEPT
     !.val = [n |-> rd.bytes[root + 1],
              s |-> Slice(rd.bytes, ReadWord(rd.bytes, root + 4), ReadWord(rd.bytes, root + 8)),
              p |-> PathBuf_from_str(Slice(rd.bytes, ReadWord(rd.bytes, root + 12),
                                           ReadWord(rd.bytes, root + 16)))],
     !.pc = "a"]

\* an Rc field, through the shared table of this call's deserializer
ReadShared(rd, r) ==
  IF r.ok
  THEN [rd EXCEPT !.val = (rd.pc :> r.inst) @@ @, !.de = r.de, !.heap = r.heap,
                  !.pc = IF rd.pc = "a" THEN "b" ELSE "d"]
  ELSE ReadFail(rd, Err(r.err))

\* AsDynConverter::from_bytes on field d: the pair, the registry, the
\* function registered under the tag
ReadDynWith(rd, got, data) ==
  IF ~got.some THEN ReadFail(rd, Panic("unsupport data type when deserialize", <<>>))
  ELSE IF from_bytes_plain("Dyn", got.deserialize, data).tag = "err"
  THEN ReadFail(rd, from_bytes_plain("Dyn", got.deserialize, data))
  ELSE [rd EXCEPT !.val = ("d" :> from_bytes_plain("Dyn", got.deserialize, data).val) @@ @,
                  !.pc = "k"]

ReadDynForced(rd, pair, forced) ==
  IF ~forced.ok THEN [rd |-> ReadFail(rd, Panic(forced.panic, forced.name)),
                      cell |-> forced.cell]
  ELSE [rd |-> ReadDynWith(rd, REGISTRY_get(forced.cell, pair.val[1]), pair.val[2]),
        cell |-> forced.cell]

ReadDyn(rd, pair, cell, flags) ==
  IF pair.tag = "err" THEN [rd |-> ReadFail(rd, pair), cell |-> cell]
  ELSE ReadDynForced(rd, pair, Lazy_force(cell, flags))

\* the skipped field k, from the context of this call
ReadSkip(rd, r) ==
  IF r.tag = "err" THEN ReadFail(rd, r)
  ELSE [rd EXCEPT !.val = ("k" :> r.val) @@ @, !.out = Ok(("k" :> r.val) @@ rd.val),
                  !.pc = "done"]

\* One step of from_bytes of a root: the call's locals and the registry
\* cell after it.
read_step(rd, cell, flags) ==
  CASE rd.pc = "new" ->
         [rd |-> ReadCheck(rd, from_bytes_check(rd.ty, rd.bytes)), cell |-> cell]
    [] rd.pc = "plain" -> [rd |-> ReadPlain(rd, RootAt(rd)), cell |-> cell]
    [] rd.pc \in {"a", "b"} ->
         [rd |-> ReadShared(rd, deserialize_shared(rd.de, rd.heap, LeafKind(rd.ty), rd.bytes,
                      ReadWord(rd.bytes, RootAt(rd) + (IF rd.pc = "a" THEN 20 ELSE 24)))),
          cell |-> cell]
    [] rd.pc = "d" ->
         ReadDyn(rd, from_bytes_plain("Pair", <<>>,
                       Slice(rd.bytes, ReadWord(rd.bytes, RootAt(rd) + 28),
                             ReadWord(rd.bytes, RootAt(rd) + 32))),
                 cell, flags)
    [] rd.pc = "k" ->
         [rd |-> ReadSkip(rd, SkipDeserialize_deserialize(de_get_context(rd.de))),
          cell |-> cell]

\* to_bytes: `let mut serializer = CacheableSerializer::new(context)`
ParToBytes(t) ==
  /\ thr[t].pc = "idle"
  /\ \E v \in ParWritten :
       thr' = [thr EXCEPT
                 ![t] = [Idle EXCEPT !.pc = "ser", !.op = "to_bytes", !.val = v,
                                     !.ctx = [env |-> 0], !.todo = FieldsOf(RootTy(v)),
                                     !.acc = <<CacheableSerializer_new([env |-> 0]), <<>>>>]]
  /\ UNCHANGED <<SerVars, REGISTRY>>

\* Mutant of ParStep: the shared table is a static of the process, so a
\* call also finds the addresses entered by the call of the first thread.
ParStep_static(acc, name, data) ==
  Resolved(acc, serialize_field(
    [acc[1] EXCEPT !.shared = IF thr[1].acc # <<>> THEN thr[1].acc[1].shared @@ @ ELSE @],
    name, data))

\* value.serialize(&mut serializer), a field at a time: the field is written
\* with the serializer of this call
ParStep(acc, name, data) == Resolved(acc, serialize_field(acc[1], name, data))

\* Serialize of the next field of the root
ParSerializeField(t) ==
  /\ thr[t].pc = "ser"
  /\ thr[t].todo # <<>>
  /\ thr' = [thr EXCEPT
               ![t].acc = ParStep(@, Head(thr[t].todo), thr[t].val),
               ![t].todo = Tail(@)]
  /\ UNCHANGED <<SerVars, REGISTRY>>

\* the root record, then serializer.into_inner()
ParResolve(t) ==
  /\ thr[t].pc = "ser"
  /\ thr[t].todo = <<>>
  /\ thr' = [thr EXCEPT
               ![t].out = OutOf(into_result(serialize_record(RootTy(thr[t].val), thr[t].val,
                                                             thr[t].acc))),
               ![t].pc = "done"]
  /\ UNCHANGED <<SerVars, REGISTRY>>

\* from_bytes of the archive of a root value
ParFromBytes(t) ==
  /\ thr[t].pc = "idle"
  /\ \E v \in ParRead : \E c \in {[env |-> 255]} :
       thr' = [thr EXCEPT
                 ![t] = [Idle EXCEPT !.pc = "read", !.op = "from_bytes", !.val = v,
                                     !.ctx = c,
                                     !.rd = NewRead(RootTy(v), ArchiveOf(v), c)]]
  /\ UNCHANGED <<SerVars, REGISTRY>>

ParReadStep(t) ==
  /\ thr[t].pc = "read"
  /\ thr[t].rd.pc # "done"
  /\ LET r == read_step(thr[t].rd, REGISTRY[RootCap], FlagsOf(inventory, RootCap))
     IN  /\ thr' = [thr EXCEPT ![t].rd = r.rd]
         /\ REGISTRY' = [REGISTRY EXCEPT ![RootCap] = r.cell]
  /\ UNCHANGED SerVars

\* from_bytes returns
ParFinish(t) ==
  /\ thr[t].pc = "read"
  /\ thr[t].rd.pc = "done"
  /\ thr' = [thr EXCEPT ![t].out = thr[t].rd.out, ![t].pc = "done"]
  /\ UNCHANGED <<SerVars, REGISTRY>>

InitPar ==
  /\ inventory \in Inventories
  /\ value = CHOOSE v \in RootValues(inventory) : Representative(v)
  /\ ctx_r = [env |-> 0]
  /\ InitCommon

NextPar ==
  \E t \in Threads :
    \/ ParToBytes(t)
    \/ ParSerializeField(t)
    \/ ParResolve(t)
    \/ ParFromBytes(t)
    \/ ParReadStep(t)
    \/ ParFinish(t)

SpecPar == InitPar /\ [][NextPar]_vars

\* from_bytes run by one thread with nothing else running
RECURSIVE RunRead(_, _, _)
RunRead(rd, cell, flags) ==
  IF rd.pc = "done" THEN rd.out
  ELSE RunRead(read_step(rd, cell, flags).rd, read_step(rd, cell, flags).cell, flags)

\* What the call of a thread returns when it runs alone.
Alone(th) ==
  IF th.op = "to_bytes" THEN OutOf(to_bytes(RootTy(th.val), th.val, th.ctx))
  ELSE RunRead(NewRead(RootTy(th.val), ArchiveOf(th.val), th.ctx), LazyNew,
               FlagsOf(inventory, RootCap))

IsPrefix(s, u) == Len(s) <= Len(u) /\ SubSeq(u, 1, Len(s)) = s

\* C16: under every interleaving a call ends as it ends alone, and when it
\* returns it returns the same; while a to_bytes call runs, its buffer holds
\* only bytes of its own archive.
C16_CallsIndependent ==
  \A t \in Threads :
    /\ thr[t].pc = "done" =>
         /\ thr[t].out.tag = Alone(thr[t]).tag
         /\ thr[t].out.tag # "panic" => thr[t].out = Alone(thr[t])
    /\ (thr[t].pc = "ser" /\ thr[t].acc # <<>>) =>
         IsPrefix(thr[t].acc[1].serializer, Alone(thr[t]).val)

\* Two calls are under way at once: a to_bytes that has written bytes and
\* entered an address in its shared table, and a from_bytes of another value
\* that has entered an offset in its own.
C16_Witness ==
  \E t1, t2 \in Threads :
    /\ t1 # t2
    /\ thr[t1].pc = "ser" /\ thr[t2].pc = "read"
    /\ thr[t1].acc[1].shared # <<>> /\ pos(thr[t1].acc[1]) > 0
    /\ thr[t2].rd.de.shared # <<>>
    /\ thr[t1].val # thr[t2].val

\* --------------------------------------- the sequence-of-strings adapter
\* AsVec<AsString> on a HashSet<PathBuf> field: the elements are converted
\* one by one, in the iteration order of the set, and collected into a set
\* again on read.
SeqPaths == {<<47>>, <<97>>, <<98>>, <<128>>, <<255>>}

\* the texts archived for the elements, as the set is iterated in order
AsVec_serialize_with(order) == [i \in DOMAIN order |-> PathBuf_to_string(order[i])]

\* the collection re-collected from the archived texts
AsVec_deserialize_with(texts) == {PathBuf_from_str(texts[i]) : i \in DOMAIN texts}

SeqWrite ==
  /\ phase = "start"
  /\ \E order \in Perms(value.h) :
       written' = [ok |-> TRUE, texts |-> AsVec_serialize_with(order)]
  /\ phase' = "serialized"
  /\ UNCHANGED <<thr, value, ctx_w, ctx_r, inventory, archive, corrupted, stack, calls,
                 heap, REGISTRY, result>>

SeqRead ==
  /\ phase = "serialized"
  /\ result' = Ok([h |-> AsVec_deserialize_with(written.texts)])
  /\ phase' = "done"
  /\ UNCHANGED <<thr, value, ctx_w, ctx_r, inventory, written, archive, corrupted, stack,
                 calls, heap, REGISTRY>>

InitSeq ==
  /\ inventory = <<Flag("Module", TypeA), Flag("Module", TypeB), Flag("Dependency", TypeA)>>
  /\ value \in [h : SUBSET SeqPaths]
  /\ ctx_r = [env |-> 0]
  /\ InitCommon

NextSeq == SeqWrite \/ SeqRead

SpecSeq == InitSeq /\ [][NextSeq]_vars

\* C17: the collection restored from a HashSet<PathBuf> field has exactly
\* the elements of the original, whatever the order they were written in.
C17_SameElements ==
  phase = "done" => result.val.h = value.h

\* C18: a field bound to the string adapter is archived as the text that
\* to-text gives and restored as from-text of that text, and from-text of
\* to-text is the original value.
C18_TextRoundTrip ==
  (phase = "done" /\ result.tag = "ok") =>
    /\ Slice(archive, ReadWord(archive, Len(archive) - SizeOf(RootTy(value)) + 12),
              ReadWord(archive, Len(archive) - SizeOf(RootTy(value)) + 16))
         = PathBuf_to_string(value.p)
    /\ result.val.p = PathBuf_from_str(PathBuf_to_string(value.p))
    /\ PathBuf_from_str(PathBuf_to_string(value.p)) = value.p

\* The offsets stored in the record of a root and of a (String, Vec<u8>),
\* each with the length of what it points to.
RootOffsets(bytes, ty, root) ==
  {<<ReadWord(bytes, root + 4), ReadWord(bytes, root + 8)>>,
   <<ReadWord(bytes, root + 12), ReadWord(bytes, root + 16)>>,
   <<ReadWord(bytes, root + 20), SizeOf(LeafKind(ty))>>,
   <<ReadWord(bytes, root + 24), SizeOf(LeafKind(ty))>>,
   <<ReadWord(bytes, root + 28), ReadWord(bytes, root + 32)>>}

PairOffsets(bytes, root) ==
  {<<ReadWord(bytes, root), ReadWord(bytes, root + 4)>>,
   <<ReadWord(bytes, root + 8), ReadWord(bytes, root + 12)>>}

PointBack(offsets, record) == \A o \in offsets : o[1] + o[2] <= record

\* the archive of the polymorphic field, as the root record locates it
PayloadIn(bytes, root) ==
  Slice(bytes, ReadWord(bytes, root + 28), ReadWord(bytes, root + 32))

\* C19: while a to_bytes call runs, every position kept for the record still
\* to be written lies inside the buffer; in the archive it returns, every
\* offset stored in the root record and in the record of the nested (tag,
\* bytes) pair points to bytes that end before the record that holds it.
C19_OffsetsPointBack ==
  \A t \in Threads :
    /\ (thr[t].pc = "ser" /\ thr[t].acc # <<>>) =>
         \A i \in DOMAIN thr[t].acc[2] : thr[t].acc[2][i] <= pos(thr[t].acc[1])
    /\ (thr[t].pc = "done" /\ thr[t].op = "to_bytes" /\ thr[t].out.tag = "ok") =>
         /\ Len(thr[t].out.val) >= SizeOf(RootTy(thr[t].val))
         /\ PointBack(RootOffsets(thr[t].out.val, RootTy(thr[t].val),
                                  Len(thr[t].out.val) - SizeOf(RootTy(thr[t].val))),
                      Len(thr[t].out.val) - SizeOf(RootTy(thr[t].val)))
         /\ PointBack(PairOffsets(PayloadIn(thr[t].out.val,
                                            Len(thr[t].out.val) - SizeOf(RootTy(thr[t].val))),
                                  Len(PayloadIn(thr[t].out.val,
                                                Len(thr[t].out.val) - SizeOf(RootTy(thr[t].val))))
                                    - SizeOf("Pair")),
                      Len(PayloadIn(thr[t].out.val,
                                    Len(thr[t].out.val) - SizeOf(RootTy(thr[t].val))))
                        - SizeOf("Pair"))

\* A to_bytes call has returned the archive of a value with two shared
\* instances while another call still holds positions for its record.
C19_Witness ==
  \E t1, t2 \in Threads :
    /\ thr[t1].pc = "done" /\ thr[t1].op = "to_bytes" /\ thr[t1].out.tag = "ok"
    /\ thr[t1].val.a.addr # thr[t1].val.b.addr
    /\ Len(thr[t1].out.val) > SizeOf(RootTy(thr[t1].val))
    /\ thr[t2].pc = "ser" /\ Len(thr[t2].acc[2]) > 3

\* ------------------------------------------------ the buffer, op by op
\* The Serializer operations of CacheableSerializer applied one after the
\* other to one serializer; `written` is the serializer, `result` the last
\* operation with the serializer before it and the value it returned.
BufArgs == UNION {[1..n -> Prims] : n \in 0..2}
BufAligns == {1, 2, 4, 8}

BufOp(op, arg, after) ==
  /\ phase = "start"
  /\ written.error = None
  /\ pos(written) < MaxBufLen
  /\ written' = after
  /\ result' = [tag |-> op, arg |-> arg, before |-> written,
                ret |-> IF after.error = None THEN Ok(pos(after)) ELSE Err(after.error)]
  /\ UNCHANGED <<thr, phase, value, ctx_w, ctx_r, inventory, archive, corrupted, stack,
                 calls, heap, REGISTRY>>

BufWrite == \E bytes \in BufArgs : BufOp("write", bytes, write(written, bytes))
BufPad == \E n \in 0..2 : BufOp("pad", n, pad(written, n))
BufAlign == \E a \in BufAligns : BufOp("align", a, align(written, a))

InitBuf ==
  /\ phase = "start"
  /\ ctx_w \in [env : {0}, fault : {NoFault} \cup [op : {"buffer"}, nth : 1..MaxFaultAt]]
  /\ written = CacheableSerializer_new(ctx_w)
  /\ result = NoOut
  /\ inventory = <<Flag("Module", TypeA), Flag("Module", TypeB), Flag("Dependency", TypeA)>>
  /\ value = <<>>
  /\ ctx_r = [env |-> 0]
  /\ archive = <<>>
  /\ corrupted = FALSE
  /\ stack = <<>>
  /\ calls = {}
  /\ heap = <<>>
  /\ REGISTRY = [c \in Caps |-> LazyNew]
  /\ thr = [t \in Threads |-> Idle]

NextBuf == BufWrite \/ BufPad \/ BufAlign

SpecBuf == InitBuf /\ [][NextBuf]_vars

\* the bytes an operation appended
Appended(before, after) ==
  SubSeq(after.serializer, pos(before) + 1, pos(after))

\* C20: an operation that succeeds leaves the earlier bytes as they were and
\* never lowers pos(); write appends its bytes, pad appends n filler bytes,
\* align appends fewer than a filler bytes, reaches a multiple of a and
\* returns the new position; an operation that fails returns
\* SerializerError and leaves the buffer as it was.
C20_PositionContract ==
  result.tag \in {"write", "pad", "align"} =>
    /\ pos(written) >= pos(result.before)
    /\ SubSeq(written.serializer, 1, pos(result.before)) = result.before.serializer
    /\ result.ret.tag = "err" =>
         /\ result.ret.err = "SerializerError"
         /\ written.serializer = result.before.serializer
    /\ (result.ret.tag = "ok" /\ result.tag = "write") =>
         Appended(result.before, written) = result.arg
    /\ (result.ret.tag = "ok" /\ result.tag = "pad") =>
         Appended(result.before, written) = Zeros(result.arg)
    /\ (result.ret.tag = "ok" /\ result.tag = "align") =>
         /\ pos(written) % result.arg = 0
         /\ pos(written) - pos(result.before) < result.arg
         /\ result.ret.val = pos(written)

\* align has inserted filler into a buffer that was not aligned.
C20_Witness ==
  /\ result.tag = "align" /\ result.ret.tag = "ok"
  /\ pos(result.before) % result.arg # 0
  /\ pos(written) > pos(result.before)

\* ------------------------------------------ to_bytes under any context
InitCtx ==
  /\ inventory = <<Flag("Module", TypeA), Flag("Module", TypeB), Flag("Dependency", TypeA)>>
  /\ value \in {v \in RootValues(inventory) :
                  WellFormed(v) /\ v.n = 0 /\ v.k = 0 /\ v.a.val = 0 /\ v.b.val = 0}
  /\ ctx_w \in Contexts
  /\ ctx_r = [env |-> 0]
  /\ phase = "start"
  /\ written = [ok |-> FALSE, err |-> None]
  /\ archive = <<>>
  /\ corrupted = FALSE
  /\ stack = <<>>
  /\ calls = {}
  /\ heap = <<>>
  /\ REGISTRY = [c \in Caps |-> LazyNew]
  /\ result = NoOut
  /\ thr = [t \in Threads |-> Idle]

SpecCtx == InitCtx /\ [][Next]_vars

\* C21: what to_bytes returned for the value under its context is what it
\* returns for the same value under every other context.
C21_ContextNotArchived ==
  (phase # "start" /\ written.ok) =>
    \A c \in Contexts : to_bytes(RootTy(value), value, c) = written

\* to_bytes has returned an archive under a context other than the default.
C21_Witness ==
  /\ phase = "serialized" /\ written.ok
  /\ ctx_w.env = 255
  /\ Len(written.bytes) > 0

\* ------------------------------------- equality and hash of Box<dyn Module>
\* The module types of the tests: a name and a &'static str.
ModuleTypes == {"RawModule", "ExternalModule"}
ModuleArgs == {<<>>, <<97>>, <<101>>, <<101, 51>>, <<114, 49>>}
Modules == [ty : ModuleTypes, arg : ModuleArgs]

\* impl Identifiable: stringify!($ident) + self.0
identifier(m) == <<m.ty>> \o m.arg

\* impl PartialEq and impl Hash of the concrete types: by identifier
concrete_eq(a, b) == identifier(a) = identifier(b)
concrete_hash(state, m) == state \o identifier(m)

\* DynEq::dyn_eq(&self, other: &dyn Any): other is downcast to the type of
\* self and compared with it; a failed downcast is "not equal"
dyn_eq(a, other) == IF other.ty = a.ty THEN concrete_eq(a, other) ELSE FALSE

\* DynHash::dyn_hash(&self, state): the concrete value's own hash
dyn_hash(state, m) == concrete_hash(state, m)

\* Mutant of Module_eq: the other module is compared by identifier without
\* the downcast to the concrete type.
Module_eq_untyped(a, b) == a.arg = b.arg

\* impl PartialEq for dyn Module: self.dyn_eq(other.as_any())
Module_eq(a, b) == dyn_eq(a, b)

\* impl Hash for dyn Module: self.dyn_hash(state)
Module_hash(state, m) == dyn_hash(state, m)

\* e1 == e2, e1.hash(&mut state1), e2.hash(&mut state2) on fresh hashers
ModuleCompare ==
  /\ phase = "start"
  /\ result' = [tag |-> "compared", eq |-> Module_eq(value[1], value[2]),
                h1 |-> Module_hash(<<>>, value[1]), h2 |-> Module_hash(<<>>, value[2])]
  /\ phase' = "done"
  /\ UNCHANGED <<thr, value, ctx_w, ctx_r, inventory, written, archive, corrupted, stack,
                 calls, heap, REGISTRY>>

InitMod ==
  /\ inventory = <<Flag("Module", TypeA), Flag("Module", TypeB), Flag("Dependency", TypeA)>>
  /\ value \in Modules \X Modules
  /\ ctx_r = [env |-> 0]
  /\ InitCommon

NextMod == ModuleCompare

SpecMod == InitMod /\ [][NextMod]_vars

TyPath(segs, args) == [kind |-> "path", segs |-> segs, args |-> args]
ArgPath(segs) == [kind |-> "path", segs |-> segs]
ArgDyn == [kind |-> "dyn"]
TyOther == [kind |-> "reference", segs |-> <<>>, args |-> <<>>]

FieldTypes ==
  {TyPath(<<"Box">>, <<ArgDyn>>), TyPath(<<"std", "boxed", "Box">>, <<ArgDyn>>),
   TyPath(<<"Box">>, <<ArgPath(<<"u32">>)>>),
   TyPath(<<"Option">>, <<ArgPath(<<"JsonValue">>)>>),
   TyPath(<<"Option">>, <<ArgPath(<<"json", "JsonValue">>)>>),
   TyPath(<<"Option">>, <<ArgPath(<<"BoxSource">>)>>),
   TyPath(<<"Option">>, <<ArgPath(<<"u32">>)>>),
   TyPath(<<"HashSet">>, <<ArgPath(<<"PathBuf">>)>>),
   TyPath(<<"HashSet">>, <<ArgPath(<<"std", "path", "PathBuf">>)>>),
   TyPath(<<"HashSet">>, <<ArgPath(<<"Atom">>)>>),
   TyPath(<<"HashSet">>, <<ArgPath(<<"u32">>)>>),
   TyPath(<<"BoxSource">>, <<>>),
   TyPath(<<"RwLock">>, <<ArgPath(<<"u32">>)>>),
   TyPath(<<"u32">>, <<>>), TyPath(<<"String">>, <<>>),
   TyOther}

Last(q) == q[Len(q)]
is_ident(path, name) == path = <<name>>

\* The attribute a branch pushes: the adapter path after
\* rspack_cacheable::with::, outermost first.
add_attr_for_Box(ty) ==
  IF ty.args # <<>> /\ ty.args[1].kind = "dyn" THEN <<<<"AsDyn">>>> ELSE <<>>

add_attr_for_Option(ty) ==
  IF ty.args # <<>> /\ Last(ty.args).kind = "path"
  THEN IF Last(Last(ty.args).segs) = "JsonValue" THEN <<<<"AsOption", "AsString">>>>
       ELSE IF Last(Last(ty.args).segs) = "BoxSource" THEN <<<<"AsOption", "AsCacheable">>>>
       ELSE <<>>
  ELSE <<>>

add_attr_for_HashSet(ty) ==
  IF ty.args # <<>> /\ Last(ty.args).kind = "path"
  THEN IF is_ident(Last(ty.args).segs, "PathBuf") THEN <<<<"AsVec", "AsString">>>>
       ELSE IF is_ident(Last(ty.args).segs, "Atom") THEN <<<<"AsVec", "AsRefStr">>>>
       ELSE <<>>
  ELSE <<>>

\* fn add_attr_for_field: the attributes pushed on the field
add_attr_for_field(ty) ==
  IF ty.kind # "path" \/ ty.segs = <<>> THEN <<>>
  ELSE IF Last(ty.segs) = "Box" /\ add_attr_for_Box(ty) # <<>> THEN add_attr_for_Box(ty)
  ELSE IF Last(ty.segs) = "Option" /\ add_attr_for_Option(ty) # <<>>
  THEN add_attr_for_Option(ty)
  ELSE IF Last(ty.segs) = "HashSet" /\ add_attr_for_HashSet(ty) # <<>>
  THEN add_attr_for_HashSet(ty)
  ELSE IF Last(ty.segs) = "BoxSource" THEN <<<<"AsCacheable">>>>
  ELSE IF Last(ty.segs) = "RwLock" THEN <<<<"Skip">>>>
  ELSE <<>>

\* What with/mod.rs exports.
WithExports ==
  {"AsCustom", "AsCustomConverter", "AsDyn", "AsDynConverter", "AsRefStr",
   "AsRefStrConverter", "AsString", "AsStringConverter", "AsVec", "AsVecConverter",
   "AsArchiveVec", "AsOption", "Skip", "SkipWithDeserialize"}

\* impl_cacheable: `for f in input.fields.iter_mut() { add_attr_for_field(f) }`,
\* one field a step; result.val holds the attributes of the fields done
BindField ==
  /\ phase = "start"
  /\ Len(result.val) < Len(value)
  /\ result' = Ok(Append(result.val, add_attr_for_field(value[Len(result.val) + 1])))
  /\ UNCHANGED <<thr, phase, value, ctx_w, ctx_r, inventory, written, archive, corrupted,
                 stack, calls, heap, REGISTRY>>

\* the derive is emitted
BindDone ==
  /\ phase = "start"
  /\ Len(result.val) = Len(value)
  /\ phase' = "done"
  /\ UNCHANGED <<thr, value, ctx_w, ctx_r, inventory, written, archive, corrupted, stack,
                 calls, heap, REGISTRY, result>>

InitBind ==
  /\ phase = "start"
  /\ value \in [1..2 -> FieldTypes]
  /\ result = Ok(<<>>)
  /\ inventory = <<Flag("Module", TypeA), Flag("Module", TypeB), Flag("Dependency", TypeA)>>
  /\ ctx_w = [env |-> 0]
  /\ ctx_r = [env |-> 0]
  /\ written = [ok |-> FALSE, err |-> None]
  /\ archive = <<>>
  /\ corrupted = FALSE
  /\ stack = <<>>
  /\ calls = {}
  /\ heap = <<>>
  /\ REGISTRY = [c \in Caps |-> LazyNew]
  /\ thr = [t \in Threads |-> Idle]

NextBind == BindField \/ BindDone

SpecBind == InitBind /\ [][NextBind]_vars

\* The adapters of the four strategies, and the attribute the claim gives
\* each type shape.
FourStrategies == {"AsDyn", "AsString", "AsRefStr", "AsOption", "AsVec", "Skip",
                   "SkipWithDeserialize"}

ClaimedAttr(ty) ==
  IF ty.kind # "path" THEN <<>>
  ELSE IF Last(ty.segs) = "Box" /\ ty.args = <<ArgDyn>> THEN <<<<"AsDyn">>>>
  ELSE IF ty = TyPath(<<"Option">>, <<ArgPath(<<"JsonValue">>)>>)
  THEN <<<<"AsOption", "AsString">>>>
  ELSE IF ty = TyPath(<<"HashSet">>, <<ArgPath(<<"PathBuf">>)>>)
  THEN <<<<"AsVec", "AsString">>>>
  ELSE IF ty = TyPath(<<"HashSet">>, <<ArgPath(<<"Atom">>)>>)
  THEN <<<<"AsVec", "AsRefStr">>>>
  ELSE IF Last(ty.segs) = "RwLock" THEN <<<<"Skip">>>>
  ELSE <<>>

\* C23 (as claimed): every field gets at most one attribute, every adapter
\* named in it is one of the four strategies and an export of the with
\* module, and a field whose shape is none of Box<dyn _>, Option<JsonValue>,
\* HashSet<PathBuf>, HashSet<Atom>, RwLock gets none.
C23_ClosedBinding ==
  \A i \in DOMAIN result.val :
    /\ Len(result.val[i]) <= 1
    /\ \A j \in DOMAIN result.val[i] : \A k \in DOMAIN result.val[i][j] :
         result.val[i][j][k] \in FourStrategies \cap WithExports
    /\ ClaimedAttr(value[i]) = <<>> => result.val[i] = <<>>

\* ------------------------------------------- the RwLock field of a struct
\* <RwLock<u8> as Default>::default()
DefaultLock == 0

\* The adapter the macro binds to the field l of "Locked".
LockAdapter == add_attr_for_field(TyPath(<<"RwLock">>, <<ArgPath(<<"u8">>)>>))

\* deserialize_with of the adapter bound to the field: rkyv::with::Skip
\* (re-exported as with::Skip) returns Default::default(),
\* SkipWithDeserialize calls the reconstruction function with the context
Lock_restore(adapter, context) ==
  IF adapter = <<<<"SkipWithDeserialize">>>> THEN SkipDeserialize_deserialize(context)
  ELSE Ok(DefaultLock)

Lock_field(f, r) ==
  IF r.tag = "err" THEN Fail(f, r.err)
  ELSE [f EXCEPT !.val = [n |-> f.bytes[RootAt(f) + 1], l |-> r.val],
                 !.out = Ok([n |-> f.bytes[RootAt(f) + 1], l |-> r.val]),
                 !.pc = "ret"]

\* the derived Deserialize of "Locked": the field n, then the field l
Lock_deserialize_with ==
  /\ Reading
  /\ Top.ty = "Locked" /\ Top.pc = "l"
  /\ stack' = SetTop(Lock_field([Top EXCEPT !.events = @ \cup {"adapter"}],
                                Lock_restore(LockAdapter, de_get_context(Top.de))))
  /\ UNCHANGED <<thr, phase, value, ctx_w, ctx_r, inventory, written, archive, corrupted,
                 calls, heap, REGISTRY, result>>

InitLock ==
  /\ inventory = <<Flag("Module", TypeA), Flag("Module", TypeB), Flag("Dependency", TypeA)>>
  /\ value \in [n : Prims, l : {0, 1, 7, 255}]
  /\ ctx_r \in [env : Prims \cup {FailEnv}]
  /\ InitCommon

NextLock ==
  \/ ToBytes
  \/ FromBytes
  \/ Validate
  \/ Lock_deserialize_with
  \/ Finish

SpecLock == InitLock /\ [][NextLock]_vars

\* C24: the RwLock field takes no bytes of the archive, and after
\* from_bytes it holds what the reconstruction function returns for the
\* context of the call; an error of that function is the error of
\* from_bytes.
C24_LockReconstructed ==
  /\ (phase # "start" /\ written.ok) => archive = <<value.n>>
  /\ phase = "done" =>
       IF SkipDeserialize_deserialize(ctx_r).tag = "err"
       THEN result = SkipDeserialize_deserialize(ctx_r)
       ELSE result = Ok([n |-> value.n, l |-> SkipDeserialize_deserialize(ctx_r).val])

\* ------------------------------------ one tag under two capabilities
\* m1::A implements Module, m2::A implements Dependency: the tag "A" is
\* registered once under each capability.
InitCap ==
  /\ inventory \in Perms({Flag("Module", TypeA), Flag("Module", TypeB),
                           Flag("Dependency", TypeA2)})
  /\ value = CHOOSE v \in RootValues(inventory) : Representative(v)
  /\ ctx_r = [env |-> 0]
  /\ InitCommon

SpecCap == InitCap /\ [][NextReg]_vars

\* C25: with the same tag registered once under each of two capabilities no
\* registry fails to build, a built registry maps exactly the tags of its
\* own capability to the functions of its own records, and a lookup returns
\* a function registered for the capability it was made in.
C25_PerCapability ==
  \A cap \in Caps :
    /\ REGISTRY[cap].init \/ REGISTRY[cap].state = "complete"
    /\ REGISTRY[cap].state = "complete" =>
         /\ DOMAIN REGISTRY[cap].map
              = {inventory[i].name : i \in {j \in DOMAIN inventory : inventory[j].cap = cap}}
         /\ \A n \in DOMAIN REGISTRY[cap].map :
              REGISTRY[cap].map[n] \in Registered(inventory, cap)
    /\ \A t \in Threads :
         (thr[t].cap = cap /\ thr[t].looked /\ thr[t].pc = "done") =>
           thr[t].fn \in Registered(inventory, cap)

\* Both registries are built, each holds the tag "A" with its own function,
\* and a lookup of "A" was made in each.
C25_Witness ==
  /\ \A cap \in Caps : REGISTRY[cap].state = "complete"
  /\ REGISTRY["Module"].map[SegA] # REGISTRY["Dependency"].map[SegA]
  /\ \E t1, t2 \in Threads :
       /\ thr[t1].cap = "Module" /\ thr[t2].cap = "Dependency"
       /\ thr[t1].pc = "done" /\ thr[t2].pc = "done"
       /\ thr[t1].name = SegA /\ thr[t2].name = SegA
       /\ thr[t1].fn = TypeA /\ thr[t2].fn = TypeA2

\* ------------------------------------------------------------------ C26
\* A root whose polymorphic field holds m1::R, a concrete type with an Rc<u8>
\* field r that may point at the allocation of the root's own Rc fields.
RcBoxes(kind) ==
  {[ty |-> TypeA, x |-> 0]} \cup
  {[ty |-> TypeR, x |-> 0, r |-> [addr |-> ad, kind |-> "u8", val |-> 255]] :
     ad \in IF kind = "u8" THEN {1, 2, 3} ELSE {3}}

RcValue(kind, baddr, d) ==
  [n |-> 255, s |-> <<97>>, p |-> <<47>>,
   a |-> [addr |-> 1, kind |-> kind, val |-> 255],
   b |-> [addr |-> baddr, kind |-> kind, val |-> 255],
   d |-> d, k |-> 0]

\* the Rc field r of m1::R, read by the nested from_bytes::<R> with the
\* deserializer that call created
DynRcFields ==
  /\ Reading
  /\ Top.ty = "DynRc" /\ Top.pc = "r"
  /\ LET b == Top.bytes
         root == RootAt(Top)
         at == ReadWord(b, root + 4)
         r == deserialize_shared(Top.de, heap, "u8", b, at)
         hit == r.ok /\ r.heap = heap
     IN  /\ stack' = SetTop(
               IF r.ok
               THEN [Top EXCEPT !.de = r.de,
                                !.events = IF hit THEN @ ELSE @ \cup {"add_shared_ptr"},
                                !.regs = IF hit THEN @ ELSE Append(@, <<at, r.inst>>),
                                !.out = Ok([ty |-> Top.dynty, x |-> b[root + 1],
                                            r |-> r.inst]),
                                !.pc = "ret"]
               ELSE Fail([Top EXCEPT !.events = @ \cup {"add_shared_ptr", "duplicate"}],
                         r.err))
         /\ heap' = r.heap
  /\ UNCHANGED <<thr, phase, value, ctx_w, ctx_r, inventory, written, archive, corrupted,
                 calls, REGISTRY, result>>

InitRc ==
  /\ inventory = <<Flag("Module", TypeA), Flag("Module", TypeR), Flag("Dependency", TypeA)>>
  /\ \E kind \in LeafKinds, baddr \in {1, 2} : \E d \in RcBoxes(kind) :
       value = RcValue(kind, baddr, d)
  /\ ctx_r \in Contexts
  /\ InitCommon

NextRc == Next \/ DynRcFields

SpecRc == InitRc /\ [][NextRc]_vars

HoldsRc == "r" \in DOMAIN value.d

\* C26: a polymorphic payload is an isolated sub-archive. The payload in the
\* archive is what stand-alone to_bytes calls with the writer's context
\* produce, the pointee of a shared value inside it is emitted in it whether
\* or not the enclosing value holds the same allocation, the nested from_bytes
\* receives the reader's context and registers the pointee in a table that
\* was empty, and the restored instance inside the payload is never the
\* instance restored outside it.
C26_IsolatedPayload ==
  /\ (phase # "start" /\ written.ok /\ HoldsRc) =>
       LET inner == to_bytes("DynRc", value.d, ctx_w)
           apart == [value EXCEPT !.d.r.addr = 3]
       IN  /\ PayloadIn(archive, Len(archive) - SizeOf(RootTy(value)))
                = AsDynConverter_pair(value.d, ctx_w, inner).bytes
           /\ inner.bytes[1] = value.d.r.val
           /\ archive = to_bytes(RootTy(apart), apart, ctx_w).bytes
  /\ \A c \in calls : c.ty = "DynRc" =>
       /\ c.context = ctx_r
       /\ c.out.tag = "ok" => Len(c.regs) = 1
  /\ (phase = "done" /\ result.tag = "ok" /\ HoldsRc) =>
       /\ result.val.d.r \notin {result.val.a, result.val.b}
       /\ heap[result.val.d.r] = value.d.r.val

C26_Witness ==
  /\ phase = "done" /\ result.tag = "ok" /\ HoldsRc
  /\ value.d.r.addr = value.a.addr
  /\ result.val.d.r # result.val.a

\* ------------------------------------------------------------------ C27
\* C27: the tag a registered type writes and the tag of its registration
\* record are both the last segment of the type's path; every finished read,
\* in a capability, of a payload tagged by a type registered in that
\* capability has found a function registered under that tag; and m1::A and
\* m2::A have the same tag.
C27_TagFindsRegistrant ==
  /\ \A i \in 1..Len(inventory) :
       LET ty == inventory[i].deserialize
       IN  /\ inventory[i].name = ty[Len(ty)]
           /\ PairValue(PayloadOf[ty].bytes)[1] = ty[Len(ty)]
  /\ \A t \in Threads :
       (/\ thr[t].op = "from_bytes"
        /\ thr[t].pc \in {"done", "panicked"}
        /\ \E ty \in Registered(inventory, thr[t].cap) : thr[t].name = ty[Len(ty)])
       => /\ thr[t].pc = "done"
          /\ thr[t].looked
          /\ \E i \in 1..Len(inventory) :
               /\ inventory[i].cap = thr[t].cap
               /\ inventory[i].name = thr[t].name
               /\ inventory[i].deserialize = thr[t].fn
  /\ cacheable_dyn_type_name(TypeA) = cacheable_dyn_type_name(TypeA2)

\* ------------------------------------------------------------------ C28
\* FlagDependencyUsagePluginProxy::apply over a module graph. The variables
\* hold: value the module graph, heap the exports info of every module,
\* archive the queue q of apply, stack the process_module calls in progress.
\* The plugin runs with global = true, so the runtime of every queue entry is
\* None and a queue entry is a module; modules have no async blocks.
GraphModules == {1, 2}

\* The depth of process_module calls the thread's stack has room for.
MaxDepth == 4

\* UsageState, in the order of the enum.
UsageRank(u) ==
  CASE u = "Unused" -> 0
    [] u = "OnlyPropertiesUsed" -> 1
    [] u = "NoInfo" -> 2
    [] u = "Unknown" -> 3
    [] u = "Used" -> 4

\* The exports info of a module: the side-effects-only info, the export x and
\* the other exports.
NewExportsInfo == [side |-> "Unused", x |-> "Unused", other |-> "Unused"]

\* ExportInfoId::set_used_conditionally(condition, new_value, runtime): the
\* usage is replaced when the condition accepts it and it differs.
set_used_conditionally(used, accepted, new_value) ==
  IF used \in accepted /\ used # new_value THEN new_value ELSE used

\* ExportsInfoId::set_used_without_info: every export and the other exports
\* become NoInfo.
set_used_without_info(info) ==
  [info EXCEPT !.x = "NoInfo", !.other = "NoInfo"]

\* ExportsInfoId::set_used_in_unknown_way: every export and the other exports
\* below Unknown become Unknown.
set_used_in_unknown_way(info) ==
  [info EXCEPT
     !.x = set_used_conditionally(@, {"Unused", "OnlyPropertiesUsed", "NoInfo"}, "Unknown"),
     !.other = set_used_conditionally(@, {"Unused", "OnlyPropertiesUsed", "NoInfo"},
                                      "Unknown")]

\* ExportsInfoId::set_used_for_side_effects_only
set_used_for_side_effects_only(info) ==
  [info EXCEPT !.side = set_used_conditionally(@, {"Unused"}, "Used")]

\* One ExtendedReferencedExport of a module whose exports type is set: the
\* empty path is the exports object, "x" the export x.
use_export(info, used_export) ==
  IF used_export = ""
  THEN set_used_in_unknown_way(info)
  ELSE [info EXCEPT !.x = set_used_conditionally(
                             @, {"Unused", "OnlyPropertiesUsed", "NoInfo", "Unknown"},
                             "Used")]

\* The loop over used_exports: the exports info after it and the number of
\* times the module was pushed.
RECURSIVE use_exports(_, _, _)
use_exports(info, used_exports, pushed) ==
  IF used_exports = <<>> THEN [info |-> info, pushed |-> pushed]
  ELSE LET after == use_export(info, Head(used_exports))
       IN  use_exports(after, Tail(used_exports),
                       IF after # info THEN pushed + 1 ELSE pushed)

\* process_referenced_module(module_id, used_exports, runtime, force_side_effects, q)
process_referenced_module(graph, info, module_id, used_exports, force_side_effects) ==
  IF used_exports # <<>>
  THEN IF graph.unset[module_id]
       THEN LET after == set_used_without_info(info)
            IN  [info |-> after, pushed |-> IF after # info THEN 1 ELSE 0]
       ELSE use_exports(info, used_exports, 0)
  ELSE IF ~force_side_effects /\ graph.side_effect_free[module_id]
       THEN [info |-> info, pushed |-> 0]
       ELSE LET after == set_used_for_side_effects_only(info)
            IN  [info |-> after, pushed |-> IF after # info THEN 1 ELSE 0]

\* q.push_back((module_id, runtime)), as many times as the call pushed
Pushed(q, module_id, n) == q \o [i \in 1..n |-> module_id]

\* process_module: what the referenced exports of one more dependency make of
\* the entry of its module in `map`
NoEntry == [some |-> FALSE, refs |-> {}]
merge_referenced_exports(old, referenced_exports) ==
  [some |-> TRUE,
   refs |-> IF ~old.some \/ old.refs = {} \/ referenced_exports = {""}
            THEN referenced_exports
            ELSE IF referenced_exports = {} THEN old.refs
            ELSE old.refs \cup referenced_exports]

\* apply: process_entry_dependency for the dependencies of the entries
ProcessEntries ==
  /\ phase = "entries"
  /\ LET r == process_referenced_module(value, heap[value.entry], value.entry, <<>>, TRUE)
     IN  /\ heap' = [heap EXCEPT ![value.entry] = r.info]
         /\ archive' = Pushed(archive, value.entry, r.pushed)
  /\ phase' = "loop"
  /\ UNCHANGED <<thr, value, ctx_w, ctx_r, inventory, written, corrupted, stack, calls,
                 REGISTRY, result>>

\* apply: while let Some((module_id, runtime)) = q.pop_front(), and the call
\* of process_module
PopFront ==
  /\ phase = "loop"
  /\ stack = <<>>
  /\ archive # <<>>
  /\ archive' = Tail(archive)
  /\ stack' = <<[module |-> Head(archive), i |-> 1, map |-> [m \in GraphModules |-> NoEntry]]>>
  /\ UNCHANGED <<thr, phase, value, ctx_w, ctx_r, inventory, written, corrupted, calls,
                 heap, REGISTRY, result>>

\* process_module: one dependency of the block, by the active state of its
\* connection; a TransitiveOnly connection calls process_module on its module
VisitDependency ==
  /\ phase = "loop"
  /\ stack # <<>>
  /\ Top.i <= Len(value.deps[Top.module])
  /\ LET dep == value.deps[Top.module][Top.i]
         on == [Top EXCEPT !.i = @ + 1]
     IN  /\ dep.state = "TransitiveOnly" => Len(stack) < MaxDepth
         /\ stack' =
              IF dep.state = "false" THEN SetTop(on)
              ELSE IF dep.state = "TransitiveOnly"
              THEN Append(SetTop(on),
                          [module |-> dep.module, i |-> 1, map |-> [m \in GraphModules |-> NoEntry]])
              ELSE SetTop([on EXCEPT !.map[dep.module] =
                             merge_referenced_exports(@, dep.referenced_exports)])
  /\ UNCHANGED <<thr, phase, value, ctx_w, ctx_r, inventory, written, archive, corrupted,
                 calls, heap, REGISTRY, result>>

\* process_module calls itself once more than the stack has room for
StackOverflow ==
  /\ phase = "loop"
  /\ stack # <<>>
  /\ Top.i <= Len(value.deps[Top.module])
  /\ value.deps[Top.module][Top.i].state = "TransitiveOnly"
  /\ Len(stack) = MaxDepth
  /\ phase' = "overflow"
  /\ UNCHANGED <<thr, value, ctx_w, ctx_r, inventory, written, archive, corrupted, stack,
                 calls, heap, REGISTRY, result>>

\* process_module: the loop over `map` after the dependencies, one
\* process_referenced_module per module, and the return to the caller
RECURSIVE flush_map(_, _, _, _, _)
flush_map(graph, infos, q, map, order) ==
  IF order = <<>> THEN [infos |-> infos, q |-> q]
  ELSE LET module_id == Head(order)
       IN  IF ~map[module_id].some
           THEN flush_map(graph, infos, q, map, Tail(order))
           ELSE LET refs == CHOOSE us \in Perms(map[module_id].refs) : TRUE
                    r == process_referenced_module(graph, infos[module_id], module_id,
                                                   refs, FALSE)
                IN  flush_map(graph, [infos EXCEPT ![module_id] = r.info],
                              Pushed(q, module_id, r.pushed), map, Tail(order))

ProcessReferenced ==
  /\ phase = "loop"
  /\ stack # <<>>
  /\ Top.i > Len(value.deps[Top.module])
  /\ \E order \in Perms(GraphModules) :
       LET r == flush_map(value, heap, archive, Top.map, order)
       IN  /\ heap' = r.infos
           /\ archive' = r.q
  /\ stack' = SubSeq(stack, 1, Len(stack) - 1)
  /\ UNCHANGED <<thr, phase, value, ctx_w, ctx_r, inventory, written, corrupted, calls,
                 REGISTRY, result>>

\* apply: the queue is empty, apply returns
ApplyReturn ==
  /\ phase = "loop"
  /\ stack = <<>>
  /\ archive = <<>>
  /\ phase' = "returned"
  /\ UNCHANGED <<thr, value, ctx_w, ctx_r, inventory, written, archive, corrupted, stack,
                 calls, heap, REGISTRY, result>>

\* The module graphs: module 1 is the entry and depends on module 2, once or
\* twice, and module 2 depends on module 1.
ConnectionStates == {"false", "TransitiveOnly", "true"}
ReferencedExports == {{}, {""}, {"x"}}
Dependencies(m) ==
  [module : {m}, state : ConnectionStates, referenced_exports : ReferencedExports]
ModuleGraphs ==
  {[entry |-> 1, deps |-> ds, unset |-> un, side_effect_free |-> sef] :
     ds \in {<<d1, d2>> : d1 \in {<<a>> \o t : a \in Dependencies(2),
                                   t \in {<<>>} \cup
                                         {<<[module |-> 2, state |-> "true",
                                             referenced_exports |-> r]>> :
                                            r \in ReferencedExports}},
                          d2 \in {<<b>> : b \in Dependencies(1)}},
     un \in [GraphModules -> BOOLEAN],
     sef \in {<<FALSE, FALSE>>, <<FALSE, TRUE>>}}

InitUsage ==
  /\ phase = "entries"
  /\ value \in ModuleGraphs
  /\ heap = [m \in GraphModules |-> NewExportsInfo]
  /\ archive = <<>>
  /\ stack = <<>>
  /\ result = NoOut
  /\ inventory = <<Flag("Module", TypeA), Flag("Module", TypeB), Flag("Dependency", TypeA)>>
  /\ ctx_w = [env |-> 0]
  /\ ctx_r = [env |-> 0]
  /\ written = [ok |-> FALSE, err |-> None]
  /\ corrupted = FALSE
  /\ calls = {}
  /\ REGISTRY = [c \in Caps |-> LazyNew]
  /\ thr = [t \in Threads |-> Idle]

NextUsage ==
  \/ ProcessEntries
  \/ PopFront
  \/ VisitDependency
  \/ StackOverflow
  \/ ProcessReferenced
  \/ ApplyReturn

\* apply runs on one thread that is never suspended for good: a step that can
\* be taken is taken.
SpecUsage == InitUsage /\ [][NextUsage]_vars /\ WF_vars(NextUsage)

\* a step pushes on q only if it changed an exports info, and no usage state
\* of an exports info ever goes down
PushOnChange ==
  (phase = "loop" /\ Len(archive') > Len(archive)) => heap' # heap
UsageRises ==
  phase \in {"entries", "loop"} =>
    \A m \in GraphModules :
      /\ UsageRank(heap'[m].side) >= UsageRank(heap[m].side)
      /\ UsageRank(heap'[m].x) >= UsageRank(heap[m].x)
      /\ UsageRank(heap'[m].other) >= UsageRank(heap[m].other)

\* C28: the dependency-usage worklist terminates: a pair is pushed only when
\* an exports info changed, usage states only move towards Used, and on every
\* module graph, cyclic ones included, the queue runs empty and apply returns.
C28_WorklistTerminates ==
  /\ [][PushOnChange /\ UsageRises]_vars
  /\ <>(phase = "returned")

\* ------------------------------------------------------------- C29, C30
\* CommonJsImportDependencyScanner over a module's statements. The variables
\* hold: value the statements of the module, stack the top-level statements
\* still to visit, heap the scanner. A statement is a try statement or a call
\* expression statement; an argument of a call is given by what
\* evaluate_expression makes of it.
Str(s) == [kind |-> "string", string |-> s, options |-> <<>>]
Conditional(options) == [kind |-> "conditional", string |-> "", options |-> options]
Template == [kind |-> "template", string |-> "", options |-> <<>>]
Unknown == [kind |-> "unknown", string |-> "", options |-> <<>>]

\* BasicEvaluatedExpression::is_string, is_conditional
is_string(p) == p.kind = "string"
is_conditional(p) == p.kind = "conditional"

\* scanner_context_module: a template or concatenation makes a context module
scanner_context_module(p) == p.kind = "template"

Call(callee, args) == [kind |-> "call", callee |-> callee, args |-> args]
Try(block, handler) == [kind |-> "try", block |-> block, handler |-> handler]

\* CommonJsImportDependencyScanner::new
CommonJsImportDependencyScanner_new ==
  [dependencies |-> <<>>, presentational_dependencies |-> <<>>, in_try |-> FALSE]

RequireHeaderDependency == [type |-> "RequireHeaderDependency"]

\* add_require_resolve(node, weak)
add_require_resolve(self, node, weak) ==
  IF node.args # <<>> /\ is_string(node.args[1])
  THEN [self EXCEPT !.dependencies =
          Append(@, [type |-> "RequireResolveDependency",
                     request |-> node.args[1].string, weak |-> weak,
                     in_try |-> self.in_try])]
  ELSE self

\* the closure process_require_item of require_handler, over a list of
\* expressions: the scanner after it and whether some item was no string
RECURSIVE process_require_items(_, _, _)
process_require_items(self, items, is_expression) ==
  IF items = <<>> THEN [self |-> self, is_expression |-> is_expression]
  ELSE IF is_string(Head(items))
  THEN process_require_items(
         [self EXCEPT !.dependencies =
            Append(@, [type |-> "CommonJsRequireDependency",
                       request |-> Head(items).string, in_try |-> self.in_try])],
         Tail(items), is_expression)
  ELSE process_require_items(self, Tail(items), TRUE)

\* Mutant of require_handler: the header of a conditional is recorded whether
\* or not every option is a string.
require_handler_eager(self, call_expr) ==
  IF Len(call_expr.args) # 1 \/ call_expr.callee # "require" THEN self
  ELSE LET param == call_expr.args[1]
           options == process_require_items(
                        self, IF is_conditional(param) THEN param.options ELSE <<>>,
                        FALSE)
           cond == IF is_conditional(param)
                   THEN [options.self EXCEPT !.presentational_dependencies =
                           Append(@, RequireHeaderDependency)]
                   ELSE options.self
           whole == process_require_items(cond, <<param>>, FALSE)
       IN  IF ~whole.is_expression
           THEN [whole.self EXCEPT !.presentational_dependencies =
                   Append(@, RequireHeaderDependency)]
           ELSE whole.self

\* require_handler(call_expr); the callee "require" is the identifier require
\* of the unresolved context, "local require" a require bound in the module
require_handler(self, call_expr) ==
  IF Len(call_expr.args) # 1 \/ call_expr.callee # "require" THEN self
  ELSE LET param == call_expr.args[1]
           options == process_require_items(
                        self, IF is_conditional(param) THEN param.options ELSE <<>>,
                        FALSE)
           cond == IF is_conditional(param) /\ ~options.is_expression
                   THEN [options.self EXCEPT !.presentational_dependencies =
                           Append(@, RequireHeaderDependency)]
                   ELSE options.self
           whole == process_require_items(cond, <<param>>, FALSE)
       IN  IF ~whole.is_expression
           THEN [whole.self EXCEPT !.presentational_dependencies =
                   Append(@, RequireHeaderDependency)]
           ELSE whole.self

\* visit_call_expr(call_expr); the arguments of the model hold no statements
visit_call_expr(self, call_expr) ==
  LET handled == require_handler(self, call_expr)
  IN  IF /\ call_expr.callee = "require"
         /\ Len(call_expr.args) = 1
         /\ scanner_context_module(call_expr.args[1])
      THEN [handled EXCEPT !.dependencies =
              Append(@, [type |-> "CommonJsRequireContextDependency"])]
      ELSE IF call_expr.callee = "require.resolve"
      THEN add_require_resolve(handled, call_expr, FALSE)
      ELSE IF call_expr.callee = "require.resolveWeak"
      THEN add_require_resolve(handled, call_expr, TRUE)
      ELSE handled

\* visit_try_stmt(node), with visit_children_with over the block and the
\* handler, and the visit of one statement
RECURSIVE visit_children_with(_, _)
visit_try_stmt(self, node) ==
  [visit_children_with([self EXCEPT !.in_try = TRUE], node.block \o node.handler)
     EXCEPT !.in_try = FALSE]

visit_stmt(self, node) ==
  IF node.kind = "try" THEN visit_try_stmt(self, node) ELSE visit_call_expr(self, node)

visit_children_with(self, nodes) ==
  IF nodes = <<>> THEN self
  ELSE visit_children_with(visit_stmt(self, Head(nodes)), Tail(nodes))

\* the visit of the next statement of the module
VisitStmt ==
  /\ phase = "start"
  /\ stack # <<>>
  /\ heap' = visit_stmt(heap, Head(stack))
  /\ stack' = Tail(stack)
  /\ UNCHANGED <<thr, phase, value, ctx_w, ctx_r, inventory, written, archive, corrupted,
                 calls, REGISTRY, result>>

\* the module is visited
VisitDone ==
  /\ phase = "start"
  /\ stack = <<>>
  /\ phase' = "done"
  /\ UNCHANGED <<thr, value, ctx_w, ctx_r, inventory, written, archive, corrupted, stack,
                 calls, heap, REGISTRY, result>>

\* The modules: one statement, a call or a try statement whose block holds
\* two statements (calls or nested try statements), and a call after it.
Callees == {"require", "local require", "require.resolve", "require.resolveWeak"}
ArgLists ==
  {<<>>, <<Str("a")>>, <<Unknown>>, <<Template>>, <<Str("a"), Str("b")>>,
   <<Conditional(<<Str("a"), Str("b")>>)>>,
   <<Conditional(<<Str("a"), Unknown>>)>>,
   <<Conditional(<<Unknown, Str("b")>>)>>,
   <<Conditional(<<Unknown, Unknown>>)>>}
CallStmts == {Call(c, a) : c \in Callees, a \in ArgLists}
TryCalls ==
  {Call("require", <<Str("a")>>), Call("require.resolve", <<Str("a")>>),
   Call("local require", <<Str("a")>>)}
InnerStmts == TryCalls \cup {Try(b, <<>>) : b \in {<<>>} \cup {<<c>> : c \in TryCalls}}
TryStmts ==
  {Try(<<s1, s2>>, h) : s1 \in InnerStmts, s2 \in InnerStmts,
                        h \in {<<>>, <<Call("require", <<Str("b")>>)>>}}
Programs ==
  {<<s>> \o t : s \in CallStmts \cup TryStmts,
                t \in {<<>>, <<Call("require", <<Str("b")>>)>>}}

InitScan ==
  /\ phase = "start"
  /\ value \in Programs
  /\ stack = value
  /\ heap = CommonJsImportDependencyScanner_new
  /\ result = NoOut
  /\ inventory = <<Flag("Module", TypeA), Flag("Module", TypeB), Flag("Dependency", TypeA)>>
  /\ ctx_w = [env |-> 0]
  /\ ctx_r = [env |-> 0]
  /\ written = [ok |-> FALSE, err |-> None]
  /\ archive = <<>>
  /\ corrupted = FALSE
  /\ calls = {}
  /\ REGISTRY = [c \in Caps |-> LazyNew]
  /\ thr = [t \in Threads |-> Idle]

NextScan == VisitStmt \/ VisitDone

SpecScan == InitScan /\ [][NextScan]_vars

\* The statements visited so far, and the calls of a list of statements in
\* the order of the text, each with whether it is lexically inside a try
\* statement.
Visited == SubSeq(value, 1, Len(value) - Len(stack))

RECURSIVE CallsOf(_, _)
CallsOf(nodes, inside) ==
  IF nodes = <<>> THEN <<>>
  ELSE (IF Head(nodes).kind = "try"
        THEN CallsOf(Head(nodes).block \o Head(nodes).handler, TRUE)
        ELSE <<[call |-> Head(nodes), inside |-> inside]>>)
       \o CallsOf(Tail(nodes), inside)

\* the in_try flags of the dependencies that carry one
HasInTry(dep) == dep.type \in {"CommonJsRequireDependency", "RequireResolveDependency"}
RECURSIVE InTryOf(_)
InTryOf(deps) ==
  IF deps = <<>> THEN <<>>
  ELSE (IF HasInTry(Head(deps)) THEN <<Head(deps).in_try>> ELSE <<>>)
       \o InTryOf(Tail(deps))

\* the flags the calls of the text should give: one per dependency a call
\* records on its own
RECURSIVE LexicalInTry(_)
LexicalInTry(cs) ==
  IF cs = <<>> THEN <<>>
  ELSE LET alone == visit_call_expr(CommonJsImportDependencyScanner_new, Head(cs).call)
       IN  [i \in 1..Len(InTryOf(alone.dependencies)) |-> Head(cs).inside]
           \o LexicalInTry(Tail(cs))

\* C29: every require / require.resolve dependency recorded for a call
\* lexically inside a try statement carries in_try = TRUE, also after a
\* nested try statement has closed, and one recorded for a call outside
\* every try statement carries in_try = FALSE.
C29_InTryIsLexical ==
  InTryOf(heap.dependencies) = LexicalInTry(CallsOf(Visited, FALSE))

\* What a one-argument call of the unresolved require should record.
IsRequire1(call) == call.callee = "require" /\ Len(call.args) = 1
AllStrings(options) == \A i \in 1..Len(options) : options[i].kind = "string"
HeaderDue(call) ==
  /\ IsRequire1(call)
  /\ \/ call.args[1].kind = "string"
     \/ call.args[1].kind = "conditional" /\ AllStrings(call.args[1].options)
StringsOf(items) == SelectSeq(items, LAMBDA p : p.kind = "string")
RequestsDue(call) ==
  IF ~IsRequire1(call) THEN <<>>
  ELSE IF call.args[1].kind = "conditional" THEN StringsOf(call.args[1].options)
  ELSE StringsOf(call.args)

RECURSIVE HeadersDue(_)
HeadersDue(cs) ==
  IF cs = <<>> THEN 0
  ELSE (IF HeaderDue(Head(cs).call) THEN 1 ELSE 0) + HeadersDue(Tail(cs))
RECURSIVE AllRequestsDue(_)
AllRequestsDue(cs) ==
  IF cs = <<>> THEN <<>>
  ELSE [i \in 1..Len(RequestsDue(Head(cs).call)) |-> RequestsDue(Head(cs).call)[i].string]
       \o AllRequestsDue(Tail(cs))
RequestsOf(deps) ==
  LET req == SelectSeq(deps, LAMBDA d : d.type = "CommonJsRequireDependency")
  IN  [i \in 1..Len(req) |-> req[i].request]

\* C30: a one-argument call of the unresolved require records exactly one
\* RequireHeaderDependency if and only if its argument is a string or a
\* conditional of strings only, and it records one CommonJsRequireDependency
\* per string, also for the string options of a conditional that gets no
\* header.
C30_HeaderIffAllStrings ==
  /\ Len(heap.presentational_dependencies) = HeadersDue(CallsOf(Visited, FALSE))
  /\ RequestsOf(heap.dependencies) = AllRequestsDue(CallsOf(Visited, FALSE))

C30_Witness ==
  /\ phase = "done"
  /\ value = <<Call("require", <<Conditional(<<Str("a"), Unknown>>)>>)>>
  /\ heap.presentational_dependencies = <<>>
  /\ RequestsOf(heap.dependencies) = <<"a">>

====
